---- MODULE Spec2Model ----
(***************************************************************************)
(* Gate-level netlist rewriting and lowering engine of verilog2spice.      *)
(*                                                                         *)
(* Spec      : generate_module_instances' two rewrite passes over the      *)
(*             cells of one module (_detect_adder_patterns, then           *)
(*             _collapse_associative_gate_chains).                         *)
(* SpecLower : expand_to_transistor_level over a list of instance lines.   *)
(* SpecMap   : map_gate_to_cell on one gate type and one library.          *)
(* SpecEmit  : generate_netlist's call of generate_module_instances.       *)
(* SpecTop   : get_top_module on one collection of modules.                *)
(* SpecParse : parse_spice_subcircuits on the lines of one SPICE file.     *)
(*                                                                         *)
(* A cells dict is a sequence of cells in dict (insertion) order with      *)
(* pairwise distinct names.  A signal id is a positive integer; 0 stands   *)
(* for Python's None (pin absent or not an int).  A cell name is a         *)
(* sequence of name tokens, so that f"HA_{name}" is <<"HA_">> \o name.     *)
(***************************************************************************)
EXTENDS Integers, Sequences, FiniteSets, TLC

VARIABLES
    module_cells,     \* module_data["cells"] as passed to generate_module_instances
    in_bits,          \* bits of the module's input ports
    out_bits,         \* bits of the module's ports with direction "output"
    lib,              \* cell_library.cells (its key set)
    cells,            \* the local `cells` of generate_module_instances
    before,           \* the value of `cells` handed to the pass that ran last
    pc,               \* position in generate_module_instances
    matches,          \* the cell names consumed by each adder match of the adder pass
    store,            \* the dict objects of the run: store[r] is the content of object r
    cells_ref,        \* the dict object that the local `cells` is bound to
    spice_file,       \* whether cell_library.spice_file is set
    subcircuit_defs,  \* load_subcircuit_definitions(cell_library.spice_file)
    instances,        \* the instance lines handed to expand_to_transistor_level
    idx,              \* the loop index of expand_to_transistor_level
    expanded_instances, \* its result list
    net_name_counter, \* its per-run counter dict
    ncalls,           \* expansions of an instance begun so far (numbers them)
    calls,            \* the stack of subcircuit types at the start of each expansion
    gens,             \* internal net names generated: [call, net, name]
    emits,            \* transistor lines emitted: [call, body, port_map, line]
    last,             \* the last top-level call: [line, result, counter]
    lpc,              \* position in expand_to_transistor_level
    map_gate_type,    \* map_gate_to_cell: its gate_type argument
    library_cells,    \* map_gate_to_cell: the keys of cell_library.cells, in dict order
    mapped,           \* map_gate_to_cell: the value returned
    mapped_again,     \* map_gate_to_cell: the value returned by a second call
    mpc,              \* calls of map_gate_to_cell made
    module_data,      \* generate_netlist: [cells, netnames, outs] of the top module
    cell_library,     \* generate_netlist: cell_library.cells, in dict order
    final_cells,      \* generate_module_instances: `cells` after both passes
    module_instances, \* generate_module_instances: the instance lines returned
    unmapped_gates,   \* generate_module_instances: gate type -> cells skipped
    epc,              \* position in generate_netlist
    modules,          \* get_top_module: the modules dict, in dict order
    top_name,         \* get_top_module: its top_name argument
    top_module,       \* get_top_module: the name of the module returned
    tpc,              \* position in get_top_module
    spice_content,    \* parse_spice_subcircuits: the lines of its argument
    parse_i,          \* parse_spice_subcircuits: the index `i` of the outer loop
    subcircuits,      \* parse_spice_subcircuits: the dict built, in dict order
    blocks,           \* parse_spice_subcircuits: [first, last] line of each block read
    ppc               \* position in parse_spice_subcircuits

rvars == <<module_cells, in_bits, out_bits, lib, cells, before, pc, matches,
           store, cells_ref>>
lvars == <<spice_file, subcircuit_defs, instances, idx, expanded_instances,
           net_name_counter, ncalls, calls, gens, emits, last, lpc>>
mvars == <<map_gate_type, library_cells, mapped, mapped_again, mpc>>
evars == <<module_data, cell_library, final_cells, module_instances, unmapped_gates, epc>>
tvars == <<modules, top_name, top_module, tpc>>
pvars == <<spice_content, parse_i, subcircuits, blocks, ppc>>
vars == <<rvars, lvars, mvars, evars, tvars, pvars>>

----------------------------------------------------------------------------
(* Cells *)

Pins == {"A", "B", "C", "D", "S", "CI", "Y", "SUM", "CARRY"}
InputPins == {"A", "B", "C", "D", "S", "CI"}
OutputPins == {"Y", "SUM", "CARRY"}

None == 0

XOR == "$_XOR_"
AND == "$_AND_"
OR  == "$_OR_"
NOT == "$_NOT_"
MUX == "$_MUX_"
NAND == "$_NAND_"

NoConn == [p \in Pins |-> None]

Gate(name, type, a, b, y) ==
    [name |-> name, type |-> type,
     conn |-> [NoConn EXCEPT !["A"] = a, !["B"] = b, !["Y"] = y]]

\* a cell with one further input pin (a 2:1 multiplexer: A, B, S -> Y)
Gate3(name, type, a, b, s, y) ==
    [name |-> name, type |-> type,
     conn |-> [NoConn EXCEPT !["A"] = a, !["B"] = b, !["S"] = s, !["Y"] = y]]

Names(cs) == {cs[i].name : i \in 1..Len(cs)}
CellSet(cs) == {cs[i] : i \in 1..Len(cs)}
CellNamed(cs, n) == CHOOSE c \in CellSet(cs) : c.name = n

\* dict[key] = value: in place when the key exists, appended otherwise
DictSet(d, cell) ==
    IF cell.name \in Names(d)
    THEN [i \in 1..Len(d) |-> IF d[i].name = cell.name THEN cell ELSE d[i]]
    ELSE Append(d, cell)

\* for name in removed: dict.pop(name, None)
DictPopAll(d, names) == SelectSeq(d, LAMBDA c : c.name \notin names)

\* the first index of the set S of matching indices, 0 when there is none (a loop
\* left by break at the first match)
FirstIdx(S) == IF S = {} THEN 0 ELSE CHOOSE i \in S : \A j \in S : i <= j

\* cell_connections[cell] = (a, b, y)
CA(c) == c.conn["A"]
CB(c) == c.conn["B"]
CY(c) == c.conn["Y"]
HasABY(c) == CA(c) # None /\ CB(c) # None /\ CY(c) # None

\* (p, q) == (a, b) or (p, q) == (b, a)
SamePair(p, q, a, b) == (p = a /\ q = b) \/ (p = b /\ q = a)

----------------------------------------------------------------------------
(* _detect_adder_patterns *)

HaName(xorName) == <<"HA_">> \o xorName
FaName(xorName) == <<"FA_">> \o xorName

HaCell(x, a) ==
    [name |-> HaName(x.name), type |-> "HA",
     conn |-> [NoConn EXCEPT !["A"] = CA(x), !["B"] = CB(x),
                             !["SUM"] = CY(x), !["CARRY"] = CY(a)]]

FaCell(x1, ci, sum, carry) ==
    [name |-> FaName(x1.name), type |-> "FA",
     conn |-> [NoConn EXCEPT !["A"] = CA(x1), !["B"] = CB(x1), !["CI"] = ci,
                             !["SUM"] = sum, !["CARRY"] = carry]]

\* the inner loop of the HA search: the first AND cell on the XOR's input pair
HaPartner(cs, i, removed) ==
    FirstIdx({j \in 1..Len(cs) :
        /\ cs[j].name \notin removed
        /\ cs[j].name # cs[i].name
        /\ cs[j].type = AND
        /\ HasABY(cs[j])
        /\ SamePair(CA(cs[i]), CB(cs[i]), CA(cs[j]), CB(cs[j]))})

HaStep(cs, i, st) ==
    LET x == cs[i] IN
    IF x.name \in st.removed \/ x.type # XOR \/ ~HasABY(x) THEN st
    ELSE LET j == HaPartner(cs, i, st.removed) IN
         IF j = 0 THEN st
         ELSE [removed |-> st.removed \cup {x.name, cs[j].name},
               rw |-> DictSet(st.rw, HaCell(x, cs[j])),
               matches |-> Append(st.matches, {x.name, cs[j].name})]

RECURSIVE HaLoop(_, _, _)
HaLoop(cs, i, st) ==
    IF i > Len(cs) THEN st ELSE HaLoop(cs, i + 1, HaStep(cs, i, st))

\* ci of the pair (xor1, xor2): the input of xor2 that is not xor1's output
CarryIn(x1, x2) ==
    IF CA(x2) = CY(x1) THEN CB(x2)
    ELSE IF CB(x2) = CY(x1) THEN CA(x2)
    ELSE None

\* an AND cell the FA search may look at
AndCandidate(cs, k, i, j, removed) ==
    /\ cs[k].name \notin removed
    /\ cs[k].name \notin {cs[i].name, cs[j].name}
    /\ cs[k].type = AND
    /\ HasABY(cs[k])

\* variant 1: one scan of the cells for AND(A, B) and AND(CI, xor1_y)
RECURSIVE V1Ands(_, _, _, _, _, _)
V1Ands(cs, k, i, j, removed, s) ==
    IF k > Len(cs) THEN s
    ELSE LET c == cs[k]
             ci == CarryIn(cs[i], cs[j])
             s2 == IF ~AndCandidate(cs, k, i, j, removed) THEN s
                   ELSE IF s.and1 = 0 /\ SamePair(CA(c), CB(c), CA(cs[i]), CB(cs[i]))
                        THEN [s EXCEPT !.and1 = k]
                   ELSE IF s.and2 = 0 /\ SamePair(CA(c), CB(c), ci, CY(cs[i]))
                        THEN [s EXCEPT !.and2 = k]
                   ELSE s
         IN V1Ands(cs, k + 1, i, j, removed, s2)

\* variant 1: the first OR cell over the two AND outputs
V1Or(cs, i, j, a1, a2, removed) ==
    FirstIdx({k \in 1..Len(cs) :
        /\ cs[k].name \notin removed
        /\ cs[k].name \notin {cs[i].name, cs[j].name, cs[a1].name, cs[a2].name}
        /\ cs[k].type = OR
        /\ HasABY(cs[k])
        /\ SamePair(CA(cs[k]), CB(cs[k]), CY(cs[a1]), CY(cs[a2]))})

\* variant 2: one scan of the cells for AND(A,B), AND(A,CI), AND(B,CI)
RECURSIVE V2Ands(_, _, _, _, _, _)
V2Ands(cs, k, i, j, removed, s) ==
    IF k > Len(cs) THEN s
    ELSE LET c == cs[k]
             ci == CarryIn(cs[i], cs[j])
             pair == {CA(c), CB(c)}
             s2 == IF ~AndCandidate(cs, k, i, j, removed) THEN s
                   ELSE IF pair = {CA(cs[i]), CB(cs[i])} /\ s.ab = 0
                        THEN [s EXCEPT !.ab = k]
                   ELSE IF pair = {CA(cs[i]), ci} /\ s.aci = 0
                        THEN [s EXCEPT !.aci = k]
                   ELSE IF pair = {CB(cs[i]), ci} /\ s.bci = 0
                        THEN [s EXCEPT !.bci = k]
                   ELSE s
         IN V2Ands(cs, k + 1, i, j, removed, s2)

\* variant 2: what the if/elif chain over (or1, or2) yields; root = 0 for `continue`
OrTree(o1, o2, p, q) ==
    IF CY(o1) = CA(o2) THEN [root |-> q, inner |-> p, leaves |-> {CA(o1), CB(o1), CB(o2)}]
    ELSE IF CY(o1) = CB(o2) THEN [root |-> q, inner |-> p, leaves |-> {CA(o1), CB(o1), CA(o2)}]
    ELSE IF CY(o2) = CA(o1) THEN [root |-> p, inner |-> q, leaves |-> {CA(o2), CB(o2), CB(o1)}]
    ELSE IF CY(o2) = CB(o1) THEN [root |-> p, inner |-> q, leaves |-> {CA(o2), CB(o2), CA(o1)}]
    ELSE [root |-> 0, inner |-> 0, leaves |-> {}]

OrCandidate(cs, k, removed) ==
    cs[k].type = OR /\ cs[k].name \notin removed

OrPairOk(cs, p, q, removed, andOutputs) ==
    /\ OrCandidate(cs, p, removed) /\ HasABY(cs[p])
    /\ OrCandidate(cs, q, removed) /\ q # p /\ HasABY(cs[q])
    /\ OrTree(cs[p], cs[q], p, q).root # 0
    /\ OrTree(cs[p], cs[q], p, q).leaves = andOutputs

\* the first (or1, or2), or1 outermost, that forms the OR3 tree
V2Ors(cs, removed, andOutputs) ==
    LET n == Len(cs)
        p == FirstIdx({a \in 1..n : \E b \in 1..n : OrPairOk(cs, a, b, removed, andOutputs)})
    IN IF p = 0 THEN [root |-> 0, inner |-> 0, leaves |-> {}]
       ELSE LET q == FirstIdx({b \in 1..n : OrPairOk(cs, p, b, removed, andOutputs)})
            IN OrTree(cs[p], cs[q], p, q)

NoFa == [ok |-> FALSE, cell |-> Gate(<<>>, "", None, None, None), used |-> {}]

\* one pass of the body of the xor2 loop for the pair (xor1 = cs[i], xor2 = cs[j])
FaTry(cs, i, j, removed) ==
    LET x1 == cs[i]
        x2 == cs[j]
        ci == CarryIn(x1, x2)
    IN
    IF \/ x2.name \in removed \/ x2.name = x1.name
       \/ x2.type # XOR \/ ~HasABY(x2)
       \/ (CA(x2) # CY(x1) /\ CB(x2) # CY(x1))
    THEN NoFa
    ELSE
    LET v1 == V1Ands(cs, 1, i, j, removed, [and1 |-> 0, and2 |-> 0])
        o  == IF v1.and1 # 0 /\ v1.and2 # 0
              THEN V1Or(cs, i, j, v1.and1, v1.and2, removed) ELSE 0
        v2 == V2Ands(cs, 1, i, j, removed, [ab |-> 0, aci |-> 0, bci |-> 0])
    IN
    IF o # 0
    THEN [ok |-> TRUE,
          cell |-> FaCell(x1, ci, CY(x2), CY(cs[o])),
          used |-> {x1.name, x2.name, cs[v1.and1].name, cs[v1.and2].name, cs[o].name}]
    ELSE IF v2.ab = 0 \/ v2.aci = 0 \/ v2.bci = 0 THEN NoFa
    ELSE
    LET t == V2Ors(cs, removed, {CY(cs[v2.ab]), CY(cs[v2.aci]), CY(cs[v2.bci])})
    IN
    IF t.root = 0 THEN NoFa
    ELSE [ok |-> TRUE,
          cell |-> FaCell(x1, ci, CY(x2), CY(cs[t.root])),
          used |-> {x1.name, x2.name, cs[v2.ab].name, cs[v2.aci].name,
                    cs[v2.bci].name, cs[t.root].name, cs[t.inner].name}]

FaStep(cs, i, st) ==
    LET x1 == cs[i] IN
    IF x1.name \in st.removed \/ x1.type # XOR \/ ~HasABY(x1) THEN st
    ELSE LET j == FirstIdx({k \in 1..Len(cs) : FaTry(cs, i, k, st.removed).ok}) IN
         IF j = 0 THEN st
         ELSE LET r == FaTry(cs, i, j, st.removed) IN
              [removed |-> st.removed \cup r.used,
               rw |-> DictSet(st.rw, r.cell),
               matches |-> Append(st.matches, r.used)]

RECURSIVE FaLoop(_, _, _)
FaLoop(cs, i, st) ==
    IF i > Len(cs) THEN st ELSE FaLoop(cs, i + 1, FaStep(cs, i, st))

\* the state after both loops: [removed, rw, matches], matches being the sets of
\* cell names added to `removed`, one per adder cell built
DetectAdderLoops(cs, library) ==
    LET has_ha == "HA" \in library
        has_fa == "FA" \in library
        st0 == [removed |-> {}, rw |-> cs, matches |-> <<>>]
        st1 == IF has_ha THEN HaLoop(cs, 1, st0) ELSE st0
    IN IF has_fa THEN FaLoop(cs, 1, st1) ELSE st1

DetectAdderPatternsAlways(cs, library) ==
    LET st == DetectAdderLoops(cs, {"HA", "FA"}) IN DictPopAll(st.rw, st.removed)
DetectAdderPatterns(cs, library) ==
    LET st == DetectAdderLoops(cs, library)
    IN IF "HA" \notin library /\ "FA" \notin library THEN cs
       ELSE DictPopAll(st.rw, st.removed)

----------------------------------------------------------------------------
(* _collapse_associative_gate_chains *)

MaxArity == 4

AssocBaseOfWide(type) ==
    CASE type \in {"$_AND_", "AND3", "AND4"} -> "AND"
      [] type = "$_OR_"   -> "OR"
      [] type = "$_NAND_" -> "NAND"
      [] type = "$_NOR_"  -> "NOR"
      [] type = "$_XOR_"  -> "XOR"
      [] type = "$_XNOR_" -> "XNOR"
      [] OTHER            -> ""
\* _ASSOCIATIVE_2INPUT_TYPES: Yosys internal name -> base cell name ("" when absent)
AssocBase(type) ==
    CASE type = "$_AND_"  -> "AND"
      [] type = "$_OR_"   -> "OR"
      [] type = "$_NAND_" -> "NAND"
      [] type = "$_NOR_"  -> "NOR"
      [] type = "$_XOR_"  -> "XOR"
      [] type = "$_XNOR_" -> "XNOR"
      [] OTHER            -> ""

\* f"{base}{n}"
WideName(base, n) == base \o ToString(n)

HasAnyMulti(library) ==
    \E base \in {"AND", "OR", "NAND", "NOR", "XOR", "XNOR"} :
        \E n \in 3..MaxArity : WideName(base, n) \in library

\* fanout[net]: the uses of net on the pins A and B of the cells
Fanout(cs, net) ==
    Cardinality({ip \in (1..Len(cs)) \X {"A", "B"} : cs[ip[1]].conn[ip[2]] = net})

\* out_net_to_cell.get(net): the last cell whose Y is net (index into cs, 0 for None)
OutNetToCell(cs, net) ==
    IF \E i \in 1..Len(cs) : CY(cs[i]) = net
    THEN CHOOSE i \in 1..Len(cs) :
            CY(cs[i]) = net /\ \A j \in (i + 1)..Len(cs) : CY(cs[j]) # net
    ELSE 0

\* net in output_port_bits
IsOutputPortBitNever(outs, net) == FALSE
IsOutputPortBit(outs, net) == net \in outs

\* fanout.get(net, 0) == 1
SingleFanout(cs, net) == Fanout(cs, net) = 1

\* ctx: [cells, rw, removed, out_bits]; st: [visited, leaves]; cells by index into ctx.cells
RECURSIVE CollectLeafInputs(_, _, _, _, _)
CollectLeafInputs(ctx, cell, gate_type, net, st) ==
    LET leaf == [st EXCEPT !.leaves = Append(@, net)]
        producer == OutNetToCell(ctx.cells, net)
    IN
    IF Len(st.leaves) >= MaxArity THEN leaf
    ELSE IF producer = 0 THEN leaf
    ELSE IF producer = cell THEN leaf
    ELSE IF producer \in st.visited \/ producer \in ctx.removed THEN leaf
    ELSE IF ctx.rw[producer].type # gate_type THEN leaf
    ELSE IF IsOutputPortBit(ctx.out_bits, net) THEN leaf
    ELSE IF ~SingleFanout(ctx.cells, net) THEN leaf
    ELSE IF \/ CY(ctx.cells[producer]) = None \/ CY(ctx.cells[producer]) # net
            \/ CA(ctx.cells[producer]) = None \/ CB(ctx.cells[producer]) = None
         THEN leaf
    ELSE LET s1 == CollectLeafInputs(ctx, cell, gate_type, CA(ctx.cells[producer]),
                                     [st EXCEPT !.visited = @ \cup {producer}])
         IN CollectLeafInputs(ctx, cell, gate_type, CB(ctx.cells[producer]), s1)

\* remove duplicates while preserving order
RECURSIVE Dedup(_)
Dedup(s) ==
    IF s = <<>> THEN <<>>
    ELSE LET d == Dedup(SubSeq(s, 1, Len(s) - 1))
             n == s[Len(s)]
         IN IF \E i \in 1..Len(d) : d[i] = n THEN d ELSE Append(d, n)

\* chr(ord("A") + idx) for the leaf at (1-based) position k
WidePin(k) == <<"A", "B", "C", "D">>[k]

WideConnReversed(leaves, y) ==
    [p \in Pins |->
        IF p = "Y" THEN y
        ELSE IF \E k \in 1..Len(leaves) : WidePin(k) = p
             THEN leaves[Len(leaves) + 1 - (CHOOSE k \in 1..Len(leaves) : WidePin(k) = p)]
             ELSE None]
WideConn(leaves, y) ==
    [p \in Pins |->
        IF p = "Y" THEN y
        ELSE IF \E k \in 1..Len(leaves) : WidePin(k) = p
             THEN leaves[CHOOSE k \in 1..Len(leaves) : WidePin(k) = p]
             ELSE None]

\* target_cell in cell_library.cells
InLibraryAlways(library, target_cell) == TRUE
InLibrary(library, target_cell) == target_cell \in library

\* one iteration of the main rewrite loop, for the cell at index i;
\* st: [rw, removed, log], log keeps (cell, visited, len(deduped)) of each candidate
CollapseStep(cs, outs, library, i, st) ==
    LET c == cs[i]
        base == AssocBase(c.type)
        ctx == [cells |-> cs, rw |-> st.rw, removed |-> st.removed, out_bits |-> outs]
        s0 == [visited |-> {}, leaves |-> <<>>]
        s1 == CollectLeafInputs(ctx, i, c.type, CA(c), s0)
        s2 == CollectLeafInputs(ctx, i, c.type, CB(c), s1)
        deduped == Dedup(s2.leaves)
        seen == [st EXCEPT !.log = Append(@, [cell |-> i, visited |-> s2.visited,
                                              count |-> Len(deduped)])]
    IN
    IF i \in st.removed THEN st
    ELSE IF base = "" THEN st
    ELSE IF ~HasABY(c) THEN st
    ELSE IF Len(deduped) <= 2 THEN seen
    ELSE IF Len(deduped) > MaxArity THEN seen
    ELSE IF ~InLibrary(library, WideName(base, Len(deduped))) THEN seen
    ELSE [seen EXCEPT !.rw[i] = [name |-> c.name,
                                 type |-> WideName(base, Len(deduped)),
                                 conn |-> WideConn(deduped, CY(c))],
                      !.removed = st.removed \cup s2.visited]

RECURSIVE CollapseLoop(_, _, _, _, _)
CollapseLoop(cs, outs, library, i, st) ==
    IF i > Len(cs) THEN st
    ELSE CollapseLoop(cs, outs, library, i + 1, CollapseStep(cs, outs, library, i, st))

CollapseAssociativeGateChains(cs, outs, library) ==
    LET st == CollapseLoop(cs, outs, library, 1, [rw |-> cs, removed |-> {}, log |-> <<>>])
    IN
    IF MaxArity < 3 THEN cs
    ELSE IF ~HasAnyMulti(library) THEN cs
    ELSE IF ~\E i \in 1..Len(cs) : AssocBase(cs[i].type) # "" THEN cs
    ELSE DictPopAll(st.rw, {cs[i].name : i \in st.removed})

\* the candidates the main rewrite pass collected leaves for, in loop order
CollapseCandidates(cs, outs, library) ==
    LET st == CollapseLoop(cs, outs, library, 1, [rw |-> cs, removed |-> {}, log |-> <<>>])
    IN
    IF MaxArity < 3 THEN <<>>
    ELSE IF ~HasAnyMulti(library) THEN <<>>
    ELSE IF ~\E i \in 1..Len(cs) : AssocBase(cs[i].type) # "" THEN <<>>
    ELSE st.log

----------------------------------------------------------------------------
(* SPICE instance lines                                                    *)
(*                                                                         *)
(* A string is a sequence of symbols.  A symbol is one character, or a     *)
(* whole word (VDD, PMOS, W=1u, ...) that holds no "_" and no digit and    *)
(* is never spelled by its characters, so every string has one spelling.   *)
(* A line is its whitespace-separated tokens plus whether blanks surround  *)
(* it: str.strip() and str.split() read toks, " ".join() builds toks.      *)

Line(toks) == [pad |-> FALSE, toks |-> toks]
Padded(toks) == [pad |-> TRUE, toks |-> toks]

\* instance_name[0].upper()
Upper(ch) == CASE ch = "x" -> "X" [] ch = "m" -> "M" [] OTHER -> ch

NotParsed == [ok |-> FALSE, name |-> <<>>, nets |-> <<>>, type |-> <<>>, params |-> <<>>]

ParseInstanceLine(line) ==
    LET parts == line.toks IN
    IF parts = <<>> THEN NotParsed
    ELSE IF Head(parts[1]) = "*" THEN NotParsed
    ELSE IF Len(parts) < 2 THEN NotParsed
    ELSE IF Head(parts[1]) \notin {"X", "M", "x", "m"} THEN NotParsed
    ELSE IF Upper(Head(parts[1])) = "M"
         THEN IF Len(parts) < 6 THEN NotParsed
              ELSE [ok |-> TRUE, name |-> parts[1], nets |-> SubSeq(parts, 2, 5),
                    type |-> parts[6], params |-> SubSeq(parts, 7, Len(parts))]
    ELSE [ok |-> TRUE, name |-> parts[1], nets |-> SubSeq(parts, 2, Len(parts) - 1),
          type |-> parts[Len(parts)], params |-> <<>>]

----------------------------------------------------------------------------
(* expand_instance_to_transistors *)

NC == <<"NC">>
GlobalNets == {<<"VDD">>, <<"VSS">>, <<"0">>}

Digit(d) == <<"0", "1", "2", "3", "4", "5", "6", "7", "8", "9">>[d + 1]

\* str(counter)
RECURSIVE DecStr(_)
DecStr(n) == IF n < 10 THEN <<Digit(n)>> ELSE DecStr(n \div 10) \o <<Digit(n % 10)>>

\* net_name_counter.get(key, 0)
CounterGet(counter, key) == IF key \in DOMAIN counter THEN counter[key] ELSE 0

CounterSetZero(counter, key, v) ==
    [k \in DOMAIN counter \cup {key} |-> IF k = key THEN 0 ELSE counter[k]]
CounterSet(counter, key, v) ==
    [k \in DOMAIN counter \cup {key} |-> IF k = key THEN v ELSE counter[k]]

PortMapSelf(ports, conns) ==
    [p \in {ports[i] : i \in 1..Len(ports)} |->
        LET i == CHOOSE k \in 1..Len(ports) :
                    ports[k] = p /\ \A j \in (k + 1)..Len(ports) : ports[j] # p
        IN IF i <= Len(conns) THEN conns[i] ELSE p]
\* port_map: formal port -> actual net, NC for a port with no net supplied
PortMap(ports, conns) ==
    [p \in {ports[i] : i \in 1..Len(ports)} |->
        LET i == CHOOSE k \in 1..Len(ports) :
                    ports[k] = p /\ \A j \in (k + 1)..Len(ports) : ports[j] # p
        IN IF i <= Len(conns) THEN conns[i] ELSE NC]

\* counter_key = f"{instance_prefix}{instance_name}_{net}"
CounterKey(prefix, instance_name, net) == prefix \o instance_name \o <<"_">> \o net

\* unique_net = f"{instance_prefix}{instance_name}_{net}_{counter}" (either branch)
UniqueNet(prefix, instance_name, net, counter) ==
    prefix \o instance_name \o <<"_">> \o net \o <<"_">> \o DecStr(counter)

\* get_net_name(net); env: [port_map, ports, conns, prefix, name, call]; m: [imap, counter, gens]
GetNetName(env, net, m) ==
    IF net \in DOMAIN env.port_map THEN [net |-> env.port_map[net], m |-> m]
    ELSE IF net \in GlobalNets THEN [net |-> net, m |-> m]
    ELSE IF net \in DOMAIN m.imap THEN [net |-> m.imap[net], m |-> m]
    ELSE LET key == CounterKey(env.prefix, env.name, net)
             c == CounterGet(m.counter, key)
             u == UniqueNet(env.prefix, env.name, net, c)
         IN [net |-> u,
             m |-> [imap |-> [n \in DOMAIN m.imap \cup {net} |->
                                 IF n = net THEN u ELSE m.imap[n]],
                    counter |-> CounterSet(m.counter, key, c + 1),
                    gens |-> Append(m.gens, [call |-> env.call, net |-> net, name |-> u])]]

\* mapped_nets = [get_net_name(net) for net in inst_nets], left to right
RECURSIVE MapNets(_, _, _, _)
MapNets(env, nets, k, acc) ==
    IF k > Len(nets) THEN acc
    ELSE LET r == GetNetName(env, nets[k], acc.m)
         IN MapNets(env, nets, k + 1, [nets |-> Append(acc.nets, r.net), m |-> r.m])

\* the name of a body instance inside the expansion of instance_name
InstNameToUse(inst_name, instance_name) ==
    IF Upper(Head(inst_name)) = "M" /\ Upper(Head(instance_name)) = "X"
    THEN IF Len(inst_name) > 1 THEN <<"X">> \o Tail(inst_name) ELSE inst_name
    ELSE inst_name

NewInstName(prefix, instance_name, inst_name) ==
    IF prefix # <<>>
    THEN prefix \o instance_name \o <<"_">> \o InstNameToUse(inst_name, instance_name)
    ELSE instance_name \o <<"_">> \o InstNameToUse(inst_name, instance_name)

\* f"{new_inst_name} {' '.join(mapped_nets)} {inst_type}" plus " ".join(inst_params)
EmitLine(new_inst_name, mapped_nets, inst_type, inst_params) ==
    Line(<<new_inst_name>> \o mapped_nets \o <<inst_type>> \o inst_params)

PassThroughStripped(instance_line) == <<[instance_line EXCEPT !.pad = FALSE]>>
\* return [instance_line]
PassThrough(instance_line) == <<instance_line>>

\* st: [counter, gens, emits, ncalls, stack, calls]; stack holds the subcircuit types
\* of the expansions in progress, outermost first; the result is [lines, st]
RECURSIVE ExpandInstanceToTransistors(_, _, _, _)
RECURSIVE ExpandBody(_, _, _, _, _)

\* the loop over subcircuit.instances from index k; acc: [lines, imap, st]
ExpandBody(defs, env, body, k, acc) ==
    IF k > Len(body) THEN acc
    ELSE
    LET p == ParseInstanceLine(body[k]) IN
    IF ~p.ok THEN ExpandBody(defs, env, body, k + 1, acc)
    ELSE
    LET mn == MapNets(env, p.nets, 1,
                      [nets |-> <<>>,
                       m |-> [imap |-> acc.imap, counter |-> acc.st.counter,
                              gens |-> acc.st.gens]])
        new_inst_name == NewInstName(env.prefix, env.name, p.name)
        out == EmitLine(new_inst_name, mn.nets, p.type, p.params)
        st1 == [acc.st EXCEPT !.counter = mn.m.counter, !.gens = mn.m.gens]
        emit == [call |-> env.call, body |-> p, ports |-> env.ports,
                 conns |-> env.conns, line |-> out]
    IN
    IF Upper(Head(p.name)) = "M"
    THEN ExpandBody(defs, env, body, k + 1,
                    [lines |-> Append(acc.lines, out), imap |-> mn.m.imap,
                     st |-> [st1 EXCEPT !.emits = Append(@, emit)]])
    ELSE
    LET nested_prefix == IF env.prefix # <<>>
                         THEN env.prefix \o env.name \o <<"_">>
                         ELSE env.name \o <<"_">>
        r == ExpandInstanceToTransistors(Line(out.toks), defs, st1, nested_prefix)
    IN ExpandBody(defs, env, body, k + 1,
                  [lines |-> acc.lines \o r.lines, imap |-> mn.m.imap, st |-> r.st])

ExpandInstanceToTransistors(instance_line, defs, st, instance_prefix) ==
    LET parsed == ParseInstanceLine(instance_line) IN
    IF ~parsed.ok THEN [lines |-> PassThrough(instance_line), st |-> st]
    ELSE IF Upper(Head(parsed.name)) = "M"
         THEN [lines |-> PassThrough(instance_line), st |-> st]
    ELSE IF parsed.type \notin DOMAIN defs
         THEN [lines |-> PassThrough(instance_line), st |-> st]
    ELSE
    LET subcircuit == defs[parsed.type]
        env == [port_map |-> PortMap(subcircuit.ports, parsed.nets),
                ports |-> subcircuit.ports, conns |-> parsed.nets,
                prefix |-> instance_prefix, name |-> parsed.name,
                call |-> st.ncalls + 1]
        r == ExpandBody(defs, env, subcircuit.instances, 1,
                        [lines |-> <<>>, imap |-> <<>>,
                         st |-> [st EXCEPT !.ncalls = @ + 1,
                                           !.stack = Append(@, parsed.type),
                                           !.calls = Append(@, Append(st.stack, parsed.type))]])
    IN [lines |-> r.lines, st |-> [r.st EXCEPT !.stack = st.stack]]

----------------------------------------------------------------------------
(* Modules the passes are run on *)

MaxOutBits == 1
MaxExtra == 1

RECURSIVE PermsOf(_)
PermsOf(S) ==
    IF S = {} THEN {<<>>}
    ELSE UNION {{<<x>> \o p : p \in PermsOf(S \ {x})} : x \in S}

\* the sequences of at most n distinct elements of S
RECURSIVE SeqsUpTo(_, _)
SeqsUpTo(S, n) ==
    IF n = 0 \/ S = {} THEN {<<>>}
    ELSE {<<>>} \cup UNION {{<<x>> \o q : q \in SeqsUpTo(S \ {x}, n - 1)} : x \in S}

SubsetsUpTo(S, n) == {T \in SUBSET S : Cardinality(T) <= n}

\* textbook full adder on A=1, B=2, CI=3: t=4, SUM=5, CARRY=8
FullAdder5 ==
    [cells |-> { Gate(<<"x1">>, XOR, 1, 2, 4), Gate(<<"x2">>, XOR, 4, 3, 5),
                 Gate(<<"a1">>, AND, 1, 2, 6), Gate(<<"a2">>, AND, 3, 4, 7),
                 Gate(<<"o1">>, OR, 6, 7, 8) },
     extras |-> { Gate(<<"n1">>, NOT, 4, None, 11),
                  Gate(<<"n2">>, NOT, 6, None, 12),
                  Gate(<<"FA_", "x1">>, NOT, 5, None, 13) },
     ins |-> {1, 2, 3},
     outs |-> {4, 5, 8},
     libs |-> SUBSET {"HA", "FA"}]

\* carry-select full adder: CARRY = (A&B) | (A&CI) | (B&CI) as an OR3 tree
FullAdder7 ==
    [cells |-> { Gate(<<"x1">>, XOR, 1, 2, 4), Gate(<<"x2">>, XOR, 4, 3, 5),
                 Gate(<<"a1">>, AND, 1, 2, 6), Gate(<<"a2">>, AND, 1, 3, 7),
                 Gate(<<"a3">>, AND, 2, 3, 9), Gate(<<"o1">>, OR, 6, 7, 10),
                 Gate(<<"o2">>, OR, 10, 9, 8) },
     extras |-> {},
     ins |-> {1, 2, 3},
     outs |-> {5, 8},
     libs |-> {{"FA"}, {"HA", "FA"}}]

\* ((w & x) & y) & z on w=1, x=2, y=3, z=4: n1=5, n2=6, out=7
Chain3 ==
    [cells |-> { Gate(<<"g1">>, AND, 1, 2, 5), Gate(<<"g2">>, AND, 5, 3, 6),
                 Gate(<<"g3">>, AND, 6, 4, 7) },
     extras |-> { Gate3(<<"m1">>, MUX, 1, 2, 5, 11),
                  Gate3(<<"m2">>, MUX, 1, 2, 6, 12),
                  Gate(<<"g4">>, AND, 5, 4, 13),
                  Gate(<<"n1">>, NOT, 6, None, 14) },
     ins |-> {1, 2, 3, 4},
     outs |-> {5, 6, 7},
     libs |-> SUBSET {"AND3", "AND4"}]

\* half adder on 1, 2 with a second AND on the same inputs
HalfAdder ==
    [cells |-> { Gate(<<"x1">>, XOR, 1, 2, 3), Gate(<<"a1">>, AND, 2, 1, 4),
                 Gate(<<"a2">>, AND, 1, 2, 5) },
     extras |-> { Gate(<<"x2">>, XOR, 2, 1, 11),
                  Gate(<<"HA_", "x1">>, NOT, 3, None, 13) },
     ins |-> {1, 2},
     outs |-> {3, 4, 5},
     libs |-> SUBSET {"HA", "FA"}]

\* half adder whose AND cell carries the name that the HA cell of x1 is given
HalfAdderNamed ==
    [cells |-> { Gate(<<"x1">>, XOR, 1, 2, 3), Gate(<<"HA_", "x1">>, AND, 1, 2, 4) },
     extras |-> {},
     ins |-> {1, 2},
     outs |-> {3, 4},
     libs |-> SUBSET {"HA", "FA"}]

\* (p ^ q) ^ r on p=1, q=2, r=3: n=5, out=6
XorChain ==
    [cells |-> { Gate(<<"x1">>, XOR, 1, 2, 5), Gate(<<"x2">>, XOR, 5, 3, 6) },
     extras |-> { Gate(<<"n1">>, NOT, 6, None, 11) },
     ins |-> {1, 2, 3},
     outs |-> {5, 6},
     libs |-> SUBSET {"XOR3", "AND3"}]

\* (((v & w) & x) & y) & z on 1, 2, 3, 4, 8: five leaves, one more than max_arity
Chain4 ==
    [cells |-> { Gate(<<"h1">>, AND, 1, 2, 5), Gate(<<"h2">>, AND, 5, 3, 6),
                 Gate(<<"h3">>, AND, 6, 4, 7), Gate(<<"h4">>, AND, 7, 8, 9) },
     extras |-> {},
     ins |-> {1, 2, 3, 4, 8},
     outs |-> {6, 9},
     libs |-> SUBSET {"AND3", "AND4"}]

\* half adder on 1, 2 whose carry feeds (carry & c) & d on c=3, d=7
CarryChain ==
    [cells |-> { Gate(<<"cx">>, XOR, 1, 2, 6), Gate(<<"ca">>, AND, 1, 2, 4),
                 Gate(<<"c2">>, AND, 4, 3, 5), Gate(<<"c3">>, AND, 5, 7, 9) },
     extras |-> {},
     ins |-> {1, 2, 3, 7},
     outs |-> {6, 9},
     libs |-> SUBSET {"HA", "AND3"}]

\* ~(~(p & q) & r) on p=1, q=2, r=3: n=5, out=6
NandChain ==
    [cells |-> { Gate(<<"d1">>, NAND, 1, 2, 5), Gate(<<"d2">>, NAND, 5, 3, 6) },
     extras |-> { Gate(<<"n1">>, NOT, 6, None, 11) },
     ins |-> {1, 2, 3},
     outs |-> {6},
     libs |-> SUBSET {"NAND3"}]

\* ((p ^ q) ^ r) ^ p on p=1, q=2, r=3: the leaf p is read twice
XorRepeat ==
    [cells |-> { Gate(<<"r1">>, XOR, 1, 2, 5), Gate(<<"r2">>, XOR, 5, 3, 6),
                 Gate(<<"r3">>, XOR, 6, 1, 7) },
     extras |-> {},
     ins |-> {1, 2, 3},
     outs |-> {7},
     libs |-> SUBSET {"XOR3"}]

\* the lowering engine is not running
LowerIdle ==
    /\ spice_file = FALSE
    /\ subcircuit_defs = <<>>
    /\ instances = <<>>
    /\ idx = 0
    /\ expanded_instances = <<>>
    /\ net_name_counter = <<>>
    /\ ncalls = 0
    /\ calls = <<>>
    /\ gens = <<>>
    /\ emits = <<>>
    /\ last = <<>>
    /\ lpc = "idle"

\* Python's None as a cell name
NoCell == "<None>"

MapIdle ==
    /\ map_gate_type = ""
    /\ library_cells = <<>>
    /\ mapped = NoCell
    /\ mapped_again = NoCell
    /\ mpc = 0

EmitIdle ==
    /\ module_data = <<>>
    /\ cell_library = <<>>
    /\ final_cells = <<>>
    /\ module_instances = <<>>
    /\ unmapped_gates = <<>>
    /\ epc = "idle"

TopIdle ==
    /\ modules = <<>>
    /\ top_name = <<>>
    /\ top_module = <<>>
    /\ tpc = "idle"

ParseIdle ==
    /\ spice_content = <<>>
    /\ parse_i = 0
    /\ subcircuits = <<>>
    /\ blocks = <<>>
    /\ ppc = "idle"

\* the dict object module_data["cells"]
ModuleCellsRef == 1

\* _detect_adder_patterns returns its argument `cells` itself
AddersReturnArgument(library) == "HA" \notin library /\ "FA" \notin library

\* _collapse_associative_gate_chains returns its argument `cells` itself
CollapseReturnsArgument(cs, library) ==
    \/ MaxArity < 3
    \/ ~HasAnyMulti(library)
    \/ ~\E i \in 1..Len(cs) : AssocBase(cs[i].type) # ""

\* rewritten_cells = dict(cells): a new dict object with the entries of `cells`
RewrittenCellsAlias(st, ref) == [ref |-> ref, store |-> st]
RewrittenCells(st, ref) == [ref |-> Len(st) + 1, store |-> Append(st, st[ref])]

\* the objects after a pass: `cells` itself is returned, or the entries of the
\* result were written into and popped from rewritten_cells, which is returned
StoreAfter(st, ref, returns_argument, result) ==
    IF returns_argument THEN [ref |-> ref, store |-> st]
    ELSE [ref |-> RewrittenCells(st, ref).ref,
          store |-> [RewrittenCells(st, ref).store
                        EXCEPT ![RewrittenCells(st, ref).ref] = result]]

Designs ==
    {FullAdder5, FullAdder7, Chain3, HalfAdder, HalfAdderNamed, XorChain, Chain4,
     CarryChain, NandChain, XorRepeat}

Init ==
    \E d \in Designs :
      \E p \in PermsOf(d.cells) :
        \E x \in SeqsUpTo(d.extras, MaxExtra) :
          \E o \in SubsetsUpTo(d.outs, MaxOutBits) :
            \E l \in d.libs :
              /\ Cardinality(Names(p \o x)) = Len(p \o x)
              /\ module_cells = p \o x
              /\ in_bits = d.ins
              /\ out_bits = o
              /\ lib = l
              /\ cells = p \o x
              /\ before = <<>>
              /\ pc = "start"
              /\ matches = <<>>
              /\ store = <<p \o x>>
              /\ cells_ref = ModuleCellsRef
              /\ LowerIdle /\ MapIdle /\ EmitIdle /\ TopIdle /\ ParseIdle

DetectAddersAfterCollapse ==
    /\ pc = "start"
    /\ cells' = DetectAdderPatterns(CollapseAssociativeGateChains(cells, out_bits, lib), lib)
    /\ before' = cells
    /\ pc' = "adders"
    /\ matches' = DetectAdderLoops(CollapseAssociativeGateChains(cells, out_bits, lib), lib).matches
    /\ \E r \in {StoreAfter(store, cells_ref, AddersReturnArgument(lib),
                             DetectAdderPatterns(
                                 CollapseAssociativeGateChains(cells, out_bits, lib), lib))} :
          store' = r.store /\ cells_ref' = r.ref
    /\ UNCHANGED <<module_cells, in_bits, out_bits, lib>>
    /\ UNCHANGED <<lvars, mvars, evars, tvars, pvars>>
\* cells = _detect_adder_patterns(module_data, cells, cell_library)
DetectAdders ==
    /\ pc = "start"
    /\ cells' = DetectAdderPatterns(cells, lib)
    /\ before' = cells
    /\ pc' = "adders"
    /\ matches' = DetectAdderLoops(cells, lib).matches
    /\ \E r \in {StoreAfter(store, cells_ref, AddersReturnArgument(lib),
                             DetectAdderPatterns(cells, lib))} :
          store' = r.store /\ cells_ref' = r.ref
    /\ UNCHANGED <<module_cells, in_bits, out_bits, lib>>
    /\ UNCHANGED <<lvars, mvars, evars, tvars, pvars>>

\* cells = _collapse_associative_gate_chains(module_data, cells, cell_library)
CollapseChains ==
    /\ pc = "adders"
    /\ cells' = CollapseAssociativeGateChains(cells, out_bits, lib)
    /\ before' = cells
    /\ pc' = "collapsed"
    /\ \E r \in {StoreAfter(store, cells_ref, CollapseReturnsArgument(cells, lib),
                             CollapseAssociativeGateChains(cells, out_bits, lib))} :
          store' = r.store /\ cells_ref' = r.ref
    /\ UNCHANGED <<module_cells, in_bits, out_bits, lib, matches>>
    /\ UNCHANGED <<lvars, mvars, evars, tvars, pvars>>

Next == DetectAdders \/ CollapseChains

Spec == Init /\ [][Next]_vars

----------------------------------------------------------------------------
(* Properties of the rewriting passes *)

\* the nets read on input pins, and the cells driving a net
InputNets(cs) == {cs[i].conn[p] : i \in 1..Len(cs), p \in InputPins} \ {None}
Drivers(cs, n) == {ip \in (1..Len(cs)) \X OutputPins : cs[ip[1]].conn[ip[2]] = n}
Driven(cs, n) == Drivers(cs, n) # {}
WellDriven(cs) ==
    \A n \in InputNets(cs) : n \in in_bits \cup out_bits \/ Cardinality(Drivers(cs, n)) = 1
\* the uses of net on any input pin of any cell
AllPinFanout(cs, net) ==
    Cardinality({ip \in (1..Len(cs)) \X InputPins : cs[ip[1]].conn[ip[2]] = net})

IsFullAdderIdiom ==
    /\ CellSet(module_cells) \in {FullAdder5.cells, FullAdder7.cells}
    /\ Len(module_cells) = Cardinality(CellSet(module_cells))

TheFullAdder ==
    [name |-> <<"FA_", "x1">>, type |-> "FA",
     conn |-> [NoConn EXCEPT !["A"] = 1, !["B"] = 2, !["CI"] = 3,
                             !["SUM"] = 5, !["CARRY"] = 8]]

\* C1: a module that is exactly the five- or seven-cell full-adder idiom on signals
\* 1, 2, 3 is rewritten, for every cell order and every library holding FA (with or
\* without HA), into exactly one FA cell (A, B, CI = 1, 2, 3; SUM = second XOR's
\* output; CARRY = root OR's output) and none of the XOR/AND/OR cells remain.
C1_AdderRoundTrip ==
    (pc = "adders" /\ IsFullAdderIdiom /\ "FA" \in lib)
        => /\ Len(cells) = 1
           /\ cells[1].type = "FA"
           /\ cells[1].conn = TheFullAdder.conn

\* the same statement for the libraries that hold FA and no HA
C1_AdderRoundTripWithoutHA ==
    (pc = "adders" /\ IsFullAdderIdiom /\ "FA" \in lib /\ "HA" \notin lib)
        => cells = <<TheFullAdder>>

\* an XOR cell and an AND cell on the same unordered input pair
IsHaPair(x, a) ==
    /\ x.type = XOR /\ HasABY(x)
    /\ a.type = AND /\ HasABY(a)
    /\ SamePair(CA(x), CB(x), CA(a), CB(a))

IsHaOf(h, x, a) ==
    /\ h.type = "HA"
    /\ h.conn = [NoConn EXCEPT !["A"] = CA(x), !["B"] = CB(x),
                               !["SUM"] = CY(x), !["CARRY"] = CY(a)]

\* x was paired with another AND cell, or a with another XOR cell
ConsumedElsewhere(cs, x, a) ==
    \E h \in CellSet(cs) :
        /\ h.type = "HA"
        /\ \/ h.conn["SUM"] = CY(x) /\ h.conn["CARRY"] # CY(a)
           \/ h.conn["SUM"] # CY(x) /\ h.conn["CARRY"] = CY(a)

\* C2: with HA in the library, every XOR cell and AND cell that read the same
\* unordered input pair (neither consumed by another match) are both removed and
\* replaced by exactly one HA cell: A, B the XOR's inputs, SUM the XOR's output,
\* CARRY the AND's output.
C2_HalfAdderReplaced ==
    (pc = "adders" /\ "HA" \in lib)
        => \A x \in CellSet(before), a \in CellSet(before) :
              (IsHaPair(x, a) /\ ~ConsumedElsewhere(cells, x, a))
                  => /\ x.name \notin Names(cells)
                     /\ a.name \notin Names(cells)
                     /\ Cardinality({i \in 1..Len(cells) : IsHaOf(cells[i], x, a)}) = 1

\* the same statement for modules in which no cell is named HA_<name of another cell>
NoHaNameClash(cs) == \A n \in Names(cs) : HaName(n) \notin Names(cs)

C2_HalfAdderReplacedNoClash ==
    (pc = "adders" /\ "HA" \in lib /\ NoHaNameClash(before))
        => \A x \in CellSet(before), a \in CellSet(before) :
              (IsHaPair(x, a) /\ ~ConsumedElsewhere(cells, x, a))
                  => /\ x.name \notin Names(cells)
                     /\ a.name \notin Names(cells)
                     /\ Cardinality({i \in 1..Len(cells) : IsHaOf(cells[i], x, a)}) = 1

\* position of the cell called name in the iteration order cs
Pos(cs, name) == FirstIdx({i \in 1..Len(cs) : cs[i].name = name})

Wide(name, type, leaves, y) ==
    [name |-> name, type |-> type,
     conn |-> [p \in Pins |->
                 CASE p = "A" -> leaves[1]
                   [] p = "B" -> leaves[2]
                   [] p = "C" -> leaves[3]
                   [] p = "D" -> IF Len(leaves) = 4 THEN leaves[4] ELSE None
                   [] p = "Y" -> y
                   [] OTHER -> None]]

\* the chain g1 = AND(1,2), g2 = AND(g1.Y,3), g3 = AND(g2.Y,4) with both
\* intermediate nets read once in the whole module and not output ports
IsPlainChain3 ==
    /\ Chain3.cells \subseteq CellSet(before)
    /\ AllPinFanout(before, 5) = 1 /\ AllPinFanout(before, 6) = 1
    /\ 5 \notin out_bits /\ 6 \notin out_bits

AllInG3 == CellSet(cells) = {Wide(<<"g3">>, "AND4", <<1, 2, 3, 4>>, 7)}

G2First ==
    CellSet(cells) = {Wide(<<"g2">>, "AND3", <<1, 2, 3>>, 6), Gate(<<"g3">>, AND, 6, 4, 7)}

\* C3 as stated: for the chain of three AND cells, a library holding the wide cell
\* and every iteration order, g3 keeps its name and Y and gets pins A, B, C, D bound
\* to w, x, y, z, and g1 and g2 are removed.
C3_ChainIntoFour ==
    (pc = "collapsed" /\ IsPlainChain3 /\ "AND4" \in lib) => AllInG3

\* C3: for the chain of three AND cells and a library holding AND4, g3 keeps its
\* name and Y, gets pins A, B, C, D bound to w, x, y, z and g1, g2 are removed,
\* provided the library has no AND3 or g3 is visited before g2; when AND3 is in the
\* library and g2 is visited first, g2 becomes AND3(w, x, y) with its name and Y,
\* only g1 is removed and g3 stays the 2-input AND of g2.Y and z.
C3_ChainCollapse ==
    (pc = "collapsed" /\ IsPlainChain3 /\ "AND4" \in lib)
        => IF "AND3" \notin lib \/ Pos(before, <<"g3">>) < Pos(before, <<"g2">>)
           THEN AllInG3
           ELSE G2First

C3_Witness ==
    /\ pc = "collapsed" /\ IsPlainChain3 /\ lib = {"AND3", "AND4"}
    /\ Pos(before, <<"g3">>) < Pos(before, <<"g2">>)
    /\ AllInG3

\* the producers of output-port bits
PortProducers == {P \in CellSet(before) : CY(P) \in out_bits}

\* C4 as stated: the producer of an output-port bit survives the collapsing pass
\* unchanged and the bit stays an input of a cell.
C4_PortProducerUnchanged ==
    pc = "collapsed"
        => /\ \A P \in PortProducers : P \in CellSet(cells)
           /\ \A n \in out_bits : n \in InputNets(before) => n \in InputNets(cells)

Widened(P, c) ==
    /\ AssocBase(P.type) # ""
    /\ \E n \in 3..MaxArity : c.type = WideName(AssocBase(P.type), n)
    /\ \A p \in {"A", "B"} :
          P.conn[p] \in in_bits \cup out_bits => P.conn[p] \in {c.conn[q] : q \in InputPins}

\* C4: the producer of an output-port bit is never inlined: it survives the
\* collapsing pass with its name and its Y net, either unchanged or itself widened
\* over its own leaves, and the bit stays an input of a surviving cell.
C4_PortProducerSurvives ==
    pc = "collapsed"
        => /\ \A P \in PortProducers :
                 \E i \in 1..Len(cells) :
                    /\ cells[i].name = P.name /\ CY(cells[i]) = CY(P)
                    /\ cells[i] = P \/ Widened(P, cells[i])
           /\ \A n \in out_bits : n \in InputNets(before) => n \in InputNets(cells)

C4_Witness ==
    /\ pc = "collapsed" /\ out_bits = {6} /\ "AND3" \in lib
    /\ CellSet(before) = Chain3.cells
    /\ Gate(<<"g3">>, AND, 6, 4, 7) \in CellSet(cells)
    /\ Wide(<<"g2">>, "AND3", <<1, 2, 3>>, 6) \in CellSet(cells)

\* C5: if every net read in the module is driven by a cell or is a port, then after
\* each pass every net read by a surviving cell is driven by exactly one surviving
\* cell or is a port.
C5_NoDanglingNet ==
    (pc \in {"adders", "collapsed"} /\ WellDriven(module_cells)) => WellDriven(cells)

\* C6: every output-port bit driven by a cell before rewriting is driven by a
\* surviving cell after both passes.
C6_OutputPortsStayDriven ==
    pc = "collapsed"
        => \A n \in out_bits : Driven(module_cells, n) => Driven(cells, n)

\* C7: the collapsing pass removes (inlines) a producer only if its output net is
\* read by exactly one input pin of the module, counting every input pin.
C7_InlineOnlySingleFanout ==
    pc = "collapsed"
        => \A P \in CellSet(before) :
              P.name \notin Names(cells) => AllPinFanout(before, CY(P)) = 1

\* the same statement with the count taken over the pins A and B only
C7_InlineOnlySingleABFanout ==
    pc = "collapsed"
        => \A P \in CellSet(before) :
              P.name \notin Names(cells) => Fanout(before, CY(P)) = 1

\* the cells consumed by the matches of the adder pass
Consumed == UNION {matches[i] : i \in 1..Len(matches)}

\* C15: the cells consumed by distinct HA/FA matches are pairwise disjoint and no
\* cell has two roles in a match; every consumed cell is absent from the result,
\* every other original cell is present unchanged, and each match adds one cell:
\* the result has |cells| - |consumed| + (number of matches) cells.
C15_MatchesPartitionCells ==
    pc = "adders"
        => /\ \A i \in 1..Len(matches), j \in 1..Len(matches) :
                 i # j => matches[i] \cap matches[j] = {}
           /\ \A i \in 1..Len(matches) : Cardinality(matches[i]) \in {2, 5, 7}
           /\ \A n \in Consumed : n \notin Names(cells)
           /\ \A c \in CellSet(before) : c.name \notin Consumed => c \in CellSet(cells)
           /\ Len(cells) = Len(before) - Cardinality(Consumed) + Len(matches)

\* no cell is named HA_<name> or FA_<name> of a cell of the module
NoAdderNameClash(cs) ==
    \A n \in Names(cs) : HaName(n) \notin Names(cs) /\ FaName(n) \notin Names(cs)

\* the same statement for modules without such a name
C15_MatchesPartitionCellsNoClash ==
    (pc = "adders" /\ NoAdderNameClash(before))
        => /\ \A i \in 1..Len(matches), j \in 1..Len(matches) :
                 i # j => matches[i] \cap matches[j] = {}
           /\ \A i \in 1..Len(matches) : Cardinality(matches[i]) \in {2, 5, 7}
           /\ \A n \in Consumed : n \notin Names(cells)
           /\ \A c \in CellSet(before) : c.name \notin Consumed => c \in CellSet(cells)
           /\ Len(cells) = Len(before) - Cardinality(Consumed) + Len(matches)

\* the internal 2-input types the collapse is specified for
FourAssociativeTypes == {"$_AND_", "$_OR_", "$_NAND_", "$_NOR_"}

\* C16: the chain collapse rewrites or removes only $_AND_, $_OR_, $_NAND_ and
\* $_NOR_ cells; a cell of any other type ($_XOR_ and $_XNOR_ included) is
\* returned with unchanged type and connections, whatever the library contains.
C16_OnlyFourTypesCollapsed ==
    pc = "collapsed"
        => \A c \in CellSet(before) :
              c.type \notin FourAssociativeTypes => c \in CellSet(cells)

\* the same statement for the cells outside _ASSOCIATIVE_2INPUT_TYPES
C16_OnlyAssociativeTypesCollapsed ==
    pc = "collapsed"
        => \A c \in CellSet(before) : AssocBase(c.type) = "" => c \in CellSet(cells)

\* the candidates of the collapse that has just run, and those of them that
\* have at most two leaves, more than max_arity leaves, or no wide cell
Candidates == CollapseCandidates(before, out_bits, lib)

NotCollapsible(e) ==
    \/ e.count <= 2
    \/ e.count > MaxArity
    \/ WideName(AssocBase(before[e.cell].type), e.count) \notin lib

\* the producers folded into the candidates that were rewritten
Absorbed ==
    UNION {Candidates[k].visited : k \in {j \in 1..Len(Candidates) :
                                            ~NotCollapsible(Candidates[j])}}

\* C17 (as stated): a candidate with at most 2 leaves, more than max_arity
\* leaves, or no {BASE}{count} cell in the library keeps its type and
\* connections, and none of the producers visited for it is removed.
C17_NotCollapsibleFrame ==
    pc = "collapsed"
        => \A k \in 1..Len(Candidates) :
              NotCollapsible(Candidates[k])
                 => /\ before[Candidates[k].cell] \in CellSet(cells)
                    /\ \A p \in Candidates[k].visited : before[p].name \in Names(cells)

\* C17 (amended): such a candidate is never rewritten, and it and the producers
\* visited for it are removed only as producers folded into another candidate
\* that is rewritten.
C17_NotCollapsibleFrameUnlessAbsorbed ==
    pc = "collapsed"
        => \A k \in 1..Len(Candidates) :
              NotCollapsible(Candidates[k])
                 => /\ \/ before[Candidates[k].cell] \in CellSet(cells)
                       \/ /\ Candidates[k].cell \in Absorbed
                          /\ before[Candidates[k].cell].name \notin Names(cells)
                    /\ \A p \in Candidates[k].visited :
                          before[p].name \in Names(cells) \/ p \in Absorbed

\* a candidate over max_arity was met, another one without a wide cell, and a
\* third one was rewritten and took over producers visited for them
C17_Witness ==
    /\ pc = "collapsed"
    /\ \E k \in 1..Len(Candidates) :
          /\ Candidates[k].count > MaxArity
          /\ Candidates[k].visited \cap Absorbed # {}
          /\ before[Candidates[k].cell] \in CellSet(cells)
    /\ \E k \in 1..Len(Candidates) :
          /\ Candidates[k].count \in 3..MaxArity
          /\ NotCollapsible(Candidates[k])
    /\ cells # before

\* the cells of the given type
OfType(cs, type) == {c \in CellSet(cs) : c.type = type}

\* C18: without HA and FA in the library the adder pass returns the cells
\* unchanged; in every case no HA cell is created when the library lacks HA and
\* no FA cell is created when the library lacks FA.
C18_AdderCellsOnlyFromLibrary ==
    pc = "adders"
        => /\ ("HA" \notin lib /\ "FA" \notin lib) => cells = before
           /\ "HA" \notin lib => OfType(cells, "HA") \subseteq OfType(before, "HA")
           /\ "FA" \notin lib => OfType(cells, "FA") \subseteq OfType(before, "FA")

\* a module with a full adder was rewritten with HA but not FA in the library:
\* an HA cell was built, the full adder was not
C18_Witness ==
    /\ pc = "adders"
    /\ "HA" \in lib /\ "FA" \notin lib
    /\ OfType(DetectAdderLoops(before, {"FA"}).rw, "FA") # {}
    /\ OfType(cells, "HA") # {}
    /\ OfType(cells, "FA") = {}

\* a module with half adders and full adders met a library without HA and FA
C18_WitnessNoAdders ==
    /\ pc = "adders"
    /\ "HA" \notin lib /\ "FA" \notin lib
    /\ DetectAdderLoops(before, {"HA", "FA"}).matches # <<>>
    /\ cells = before

\* one step of generate_module_instances before emission: the adder pass on the
\* cells of the module, then the collapsing pass on its result, then no further pass
PassesInOrder ==
    /\ pc = "start" => pc' = "adders" /\ cells' = DetectAdderPatterns(cells, lib)
    /\ pc = "adders" => /\ pc' = "collapsed"
                        /\ cells' = CollapseAssociativeGateChains(cells, out_bits, lib)
    /\ pc # "collapsed"

\* the cells of the module that the matches consumed
ConsumedCells == {c \in CellSet(module_cells) : c.name \in Consumed}

\* C24: adder detection runs once, then chain collapsing runs once, and nothing
\* else rewrites the cells; the collapsing pass is not given a consumed cell, so
\* it neither inlines nor rewrites one, and the HA and FA cells are the same
\* before and after the collapsing pass.
C24_AddersThenCollapseOnce ==
    /\ [][PassesInOrder]_vars
    /\ [](pc = "collapsed"
            => /\ ConsumedCells \cap CellSet(before) = {}
               /\ ConsumedCells \cap CellSet(cells) = {}
               /\ OfType(cells, "HA") = OfType(before, "HA")
               /\ OfType(cells, "FA") = OfType(before, "FA"))

\* a half adder was matched and, next to its HA cell, a chain was collapsed
C24_Witness ==
    /\ pc = "collapsed"
    /\ ConsumedCells # {}
    /\ OfType(cells, "HA") # {}
    /\ cells # before
    /\ \E c \in CellSet(cells) : c.type = "AND3" /\ c.conn["A"] \in
                                     {h.conn["CARRY"] : h \in OfType(cells, "HA")}

\* the Boolean function of a 2-input gate of the given base
Gate2Value(base, a, b) ==
    CASE base = "AND"  -> a /\ b
      [] base = "OR"   -> a \/ b
      [] base = "NAND" -> ~(a /\ b)
      [] base = "NOR"  -> ~(a \/ b)
      [] base = "XOR"  -> a # b
      [] base = "XNOR" -> a = b

\* the Boolean function of the N-input gate {BASE}{N} on the values of its inputs,
\* given as the number of inputs and the number of them that are TRUE
WideValue(base, n, ones) ==
    CASE base = "AND"  -> ones = n
      [] base = "OR"   -> ones > 0
      [] base = "NAND" -> ones # n
      [] base = "NOR"  -> ones = 0
      [] base = "XOR"  -> ones % 2 = 1
      [] base = "XNOR" -> ones % 2 = 0

\* the value of net in the netlist cs when the nets of asg carry the values of asg:
\* the gates of the given base are evaluated down to the assigned nets
RECURSIVE NetValue(_, _, _, _)
NetValue(cs, base, net, asg) ==
    IF net \in DOMAIN asg THEN asg[net]
    ELSE LET producer == cs[OutNetToCell(cs, net)]
         IN Gate2Value(base, NetValue(cs, base, CA(producer), asg),
                             NetValue(cs, base, CB(producer), asg))

\* the input nets of a cell
LeafNets(c) == {c.conn[p] : p \in InputPins} \ {None}

\* the cells of the result that the collapsing pass rewrote
Rewritten ==
    {c \in CellSet(cells) : /\ c.name \in Names(before)
                            /\ CellNamed(before, c.name) # c
                            /\ AssocBase(CellNamed(before, c.name).type) # ""}

\* the rewritten cell c computes at Y what the chain of 2-input gates computed
SameFunction(c) ==
    LET orig == CellNamed(before, c.name)
        base == AssocBase(orig.type)
        leaves == LeafNets(c)
    IN \A asg \in [leaves -> BOOLEAN] :
          WideValue(base, Cardinality(leaves), Cardinality({n \in leaves : asg[n]}))
            = Gate2Value(base, NetValue(before, base, CA(orig), asg),
                               NetValue(before, base, CB(orig), asg))

\* C25: for every gate type that is collapsed, the rewritten cell, read as the
\* N-input gate over its leaf inputs, computes at Y the same Boolean function as
\* the original chain of 2-input gates, for every assignment of the leaf nets.
C25_CollapsedGateEquivalent ==
    pc = "collapsed" => \A c \in Rewritten : SameFunction(c)

\* the same statement for AND and OR chains, and for XOR chains that read no leaf twice
C25_AndOrChainsEquivalent ==
    pc = "collapsed"
        => \A c \in Rewritten :
              LET base == AssocBase(CellNamed(before, c.name).type)
                  NoLeafTwice ==
                      \A k \in 1..Len(Candidates) :
                         before[Candidates[k].cell].name = c.name
                            => Candidates[k].count = Cardinality(Candidates[k].visited) + 2
              IN (base \in {"AND", "OR"} \/ (base = "XOR" /\ NoLeafTwice))
                    => SameFunction(c)

\* the collapsing pass applied to its own result
CollapsedAgain == CollapseAssociativeGateChains(cells, out_bits, lib)

\* C28 (as stated): the collapsing pass reaches a fixpoint in its single run:
\* applied again to its own result, with the same ports and library, it changes
\* no cell, for every cell order and chain length.
C28_CollapseFixpoint ==
    pc = "collapsed" => CollapsedAgain = cells

\* the cells of the result that are no 2-input gate of a collapsible type
NotCandidates == {c \in CellSet(cells) : AssocBase(c.type) = ""}

\* C28 (amended): a second run never changes or removes a cell that the first
\* run rewrote, nor any other cell that is not a 2-input gate of a collapsible
\* type; it changes no cell at all when no such 2-input gate is left.
C28_CollapseKeepsRewrittenCells ==
    pc = "collapsed"
        => /\ Rewritten \subseteq CellSet(CollapsedAgain)
           /\ NotCandidates \subseteq CellSet(CollapsedAgain)
           /\ NotCandidates = CellSet(cells) => CollapsedAgain = cells

\* a chain was collapsed, 2-input gates are left, and a second run collapses them
\* next to the cell that the first run rewrote
C28_Witness ==
    /\ pc = "collapsed"
    /\ Rewritten # {}
    /\ NotCandidates # CellSet(cells)
    /\ CollapsedAgain # cells

\* a chain was collapsed, no 2-input gate is left, and a second run changes nothing
C28_WitnessFixpoint ==
    /\ pc = "collapsed"
    /\ Rewritten # {}
    /\ NotCandidates = CellSet(cells)
    /\ CollapsedAgain = cells

\* a step leaves every dict object that exists where it is, with its entries, and
\* leaves the module and the library as they are
ArgumentsKept ==
    /\ Len(store') >= Len(store)
    /\ \A r \in 1..Len(store) : store'[r] = store[r]
    /\ module_cells' = module_cells
    /\ in_bits' = in_bits /\ out_bits' = out_bits
    /\ lib' = lib

\* C29: the passes do not mutate their arguments: the cells dict passed in, the
\* type and connections of every original cell, the module and the library are
\* the same after each call (rewrites go to a copy), so a second run of both
\* passes on the same module and library returns the same cells.
C29_PassesKeepArguments ==
    /\ [][ArgumentsKept]_vars
    /\ [](pc # "idle" => /\ store[ModuleCellsRef] = module_cells
                         /\ store[cells_ref] = cells)
    /\ [](pc = "collapsed"
            => CollapseAssociativeGateChains(
                   DetectAdderPatterns(store[ModuleCellsRef], lib), out_bits, lib) = cells)

\* both passes rewrote cells, each in a copy of its own
C29_Witness ==
    /\ pc = "collapsed"
    /\ Len(store) = 3 /\ cells_ref = 3
    /\ store[1] # store[2]
    /\ store[2] # store[3]

----------------------------------------------------------------------------
(* expand_to_transistor_level *)

MaxInstances == 2

\* .SUBCKT INV A Y / M1 Y A n VDD PMOS W=1u L=2u / M2 Y A VSS n NMOS / .ENDS
\* .SUBCKT BUF A Y / X1 A n_n INV / M3 Y A / X2 n_n Y INV / .ENDS
\* .SUBCKT TIE Y   / M1 Y n_1 n VDD PMOS / .ENDS
Library ==
    [t \in {<<"INV">>, <<"BUF">>, <<"TIE">>} |->
        CASE t = <<"INV">> ->
               [ports |-> << <<"A">>, <<"Y">> >>,
                instances |-> <<
                  Line(<< <<"M", "1">>, <<"Y">>, <<"A">>, <<"n">>, <<"VDD">>,
                          <<"PMOS">>, <<"W=1u">>, <<"L=2u">> >>),
                  Line(<< <<"M", "2">>, <<"Y">>, <<"A">>, <<"VSS">>, <<"n">>,
                          <<"NMOS">> >>) >>]
          [] t = <<"BUF">> ->
               [ports |-> << <<"A">>, <<"Y">> >>,
                instances |-> <<
                  Line(<< <<"X", "1">>, <<"A">>, <<"n", "_", "n">>, <<"INV">> >>),
                  Line(<< <<"M", "3">>, <<"Y">>, <<"A">> >>),
                  Line(<< <<"X", "2">>, <<"n", "_", "n">>, <<"Y">>, <<"INV">> >>) >>]
          [] t = <<"TIE">> ->
               [ports |-> << <<"Y">> >>,
                instances |-> <<
                  Line(<< <<"m", "1">>, <<"Y">>, <<"n", "_", "1">>, <<"n">>, <<"VDD">>,
                          <<"PMOS">> >>) >>]]

\* the lines a caller may pass
LinePool ==
    { Line(<< <<"X", "1">>, <<"a">>, <<"y">>, <<"INV">> >>),
      Line(<< <<"X", "1", "_", "n">>, <<"a">>, <<"y">>, <<"INV">> >>),
      Line(<< <<"X", "1">>, <<"a">>, <<"y">>, <<"BUF">> >>),
      Line(<< <<"X", "1", "_", "X", "1">>, <<"y">>, <<"z">>, <<"INV">> >>),
      Line(<< <<"X", "1">>, <<"y">>, <<"TIE">> >>),
      Line(<< <<"x", "2">>, <<"y">>, <<"z">>, <<"INV">> >>),
      Line(<< <<"X", "3">>, <<"a">>, <<"INV">> >>),
      Line(<< <<"X", "4">>, <<"a">>, <<"BUF">> >>),
      Padded(<< <<"X", "3">>, <<"a">>, <<"y">>, <<"FOO">> >>),
      Padded(<< <<"M", "1">>, <<"y">>, <<"a">>, <<"n">>, <<"VDD">>, <<"PMOS">>,
                <<"W=1u">> >>),
      Line(<< <<"M", "1">>, <<"y">>, <<"a">> >>),
      Padded(<< <<"R", "1">>, <<"a">>, <<"y">> >>),
      Padded(<< <<"*">>, <<"INV">> >>),
      Padded(<<>>) }

RECURSIVE ListsUpTo(_, _)
ListsUpTo(S, n) ==
    IF n = 0 THEN {<<>>}
    ELSE {<<>>} \cup {<<x>> \o q : x \in S, q \in ListsUpTo(S, n - 1)}

\* the rewriting passes are not running
RewriteIdle ==
    /\ module_cells = <<>>
    /\ in_bits = {}
    /\ out_bits = {}
    /\ lib = {}
    /\ cells = <<>>
    /\ before = <<>>
    /\ pc = "idle"
    /\ matches = <<>>
    /\ store = <<>>
    /\ cells_ref = 0

InitLower ==
    \E l \in ListsUpTo(LinePool, MaxInstances) :
      \E f \in {<<FALSE, <<>> >>, <<TRUE, <<>> >>, <<TRUE, Library>>} :
        /\ RewriteIdle /\ MapIdle /\ EmitIdle /\ TopIdle /\ ParseIdle
        /\ spice_file = f[1]
        /\ subcircuit_defs = f[2]
        /\ instances = l
        /\ idx = 1
        /\ expanded_instances = <<>>
        /\ net_name_counter = <<>>
        /\ ncalls = 0
        /\ calls = <<>>
        /\ gens = <<>>
        /\ emits = <<>>
        /\ last = <<>>
        /\ lpc = "start"

\* raise ValueError("Cell library SPICE file required ...")
RaiseNoSpiceFile ==
    /\ lpc = "start"
    /\ ~spice_file
    /\ lpc' = "error"
    /\ UNCHANGED <<spice_file, subcircuit_defs, instances, idx, expanded_instances,
                   net_name_counter, ncalls, calls, gens, emits, last>>
    /\ UNCHANGED <<rvars, mvars, evars, tvars, pvars>>

\* no subcircuit definitions: return instances
ReturnUnexpanded ==
    /\ lpc = "start"
    /\ spice_file
    /\ DOMAIN subcircuit_defs = {}
    /\ expanded_instances' = instances
    /\ lpc' = "done"
    /\ UNCHANGED <<spice_file, subcircuit_defs, instances, idx,
                   net_name_counter, ncalls, calls, gens, emits, last>>
    /\ UNCHANGED <<rvars, mvars, evars, tvars, pvars>>

BeginExpand ==
    /\ lpc = "start"
    /\ spice_file
    /\ DOMAIN subcircuit_defs # {}
    /\ lpc' = "loop"
    /\ UNCHANGED <<spice_file, subcircuit_defs, instances, idx, expanded_instances,
                   net_name_counter, ncalls, calls, gens, emits, last>>
    /\ UNCHANGED <<rvars, mvars, evars, tvars, pvars>>

ExpandNextStuck ==
    /\ lpc = "loop"
    /\ idx <= Len(instances)
    /\ last' = [line |-> instances[idx], result |-> <<>>, counter |-> net_name_counter]
    /\ UNCHANGED <<spice_file, subcircuit_defs, instances, idx, expanded_instances,
                   net_name_counter, ncalls, calls, gens, emits, lpc>>
    /\ UNCHANGED <<rvars, mvars, evars, tvars, pvars>>
\* one iteration of `for inst_line in instances`
ExpandNext ==
    /\ lpc = "loop"
    /\ idx <= Len(instances)
    /\ LET r == ExpandInstanceToTransistors(
                    instances[idx], subcircuit_defs,
                    [counter |-> net_name_counter, gens |-> gens, emits |-> emits,
                     ncalls |-> ncalls, stack |-> <<>>, calls |-> calls], <<>>)
       IN /\ expanded_instances' = expanded_instances \o r.lines
          /\ net_name_counter' = r.st.counter
          /\ gens' = r.st.gens
          /\ emits' = r.st.emits
          /\ ncalls' = r.st.ncalls
          /\ calls' = r.st.calls
          /\ last' = [line |-> instances[idx], result |-> r.lines,
                      counter |-> net_name_counter]
    /\ idx' = idx + 1
    /\ UNCHANGED <<spice_file, subcircuit_defs, instances, lpc>>
    /\ UNCHANGED <<rvars, mvars, evars, tvars, pvars>>

ReturnExpanded ==
    /\ lpc = "loop"
    /\ idx > Len(instances)
    /\ lpc' = "done"
    /\ UNCHANGED <<spice_file, subcircuit_defs, instances, idx, expanded_instances,
                   net_name_counter, ncalls, calls, gens, emits, last>>
    /\ UNCHANGED <<rvars, mvars, evars, tvars, pvars>>

NextLower ==
    RaiseNoSpiceFile \/ ReturnUnexpanded \/ BeginExpand \/ ExpandNext \/ ReturnExpanded

SpecLower == InitLower /\ [][NextLower]_vars

\* the control of expand_to_transistor_level: the entry tests are left, the for
\* loop takes its next element, the function returns after the last one
LoopControl ==
    \/ lpc = "start" /\ lpc' \in {"error", "done", "loop"} /\ idx' = idx
    \/ lpc = "loop" /\ idx <= Len(instances) /\ idx' = idx + 1 /\ lpc' = lpc
    \/ lpc = "loop" /\ idx > Len(instances) /\ lpc' = "done" /\ idx' = idx

\* the function runs on: the statement that the control is at is executed
SpecLowerFair == SpecLower /\ WF_<<lpc, idx>>(LoopControl)

----------------------------------------------------------------------------
(* Properties of the lowering *)

IsFormalPort(e, net) == \E i \in 1..Len(e.ports) : e.ports[i] = net
IsInternalNet(e, net) == ~IsFormalPort(e, net) /\ net \notin GlobalNets

\* the terminals of an emitted line
Terminals(e) == SubSeq(e.line.toks, 2, 1 + Len(e.body.nets))

\* C8: within one call of expand_to_transistor_level the names generated for
\* internal nets are pairwise distinct (in particular across expanded instances);
\* within one expanded instance an internal net is always emitted under the one
\* name generated for it; a body net that is a formal port is emitted as the net
\* the caller supplied at that port position.
C8_LoweringUniqueness ==
    /\ \A i \in 1..Len(gens), j \in 1..Len(gens) : i # j => gens[i].name # gens[j].name
    /\ \A k \in 1..Len(emits) :
          LET e == emits[k] IN
          /\ Len(e.line.toks) >= 1 + Len(e.body.nets)
          /\ \A t \in 1..Len(e.body.nets) :
                LET net == e.body.nets[t] IN
                /\ IsInternalNet(e, net)
                      => /\ Cardinality({g \in 1..Len(gens) :
                                gens[g].call = e.call /\ gens[g].net = net}) = 1
                         /\ \E g \in 1..Len(gens) :
                              /\ gens[g].call = e.call /\ gens[g].net = net
                              /\ Terminals(e)[t] = gens[g].name
                /\ \A i \in 1..Len(e.ports) :
                      (e.ports[i] = net /\ i <= Len(e.conns)) => Terminals(e)[t] = e.conns[i]

\* two instances with the same name and the same internal net, and a nested instance
C8_Witness ==
    /\ lpc = "done"
    /\ \E i \in 1..Len(gens), j \in 1..Len(gens) :
          /\ gens[i].call # gens[j].call
          /\ gens[i].net = gens[j].net
          /\ Len(gens[i].name) = Len(gens[j].name)
          /\ SubSeq(gens[i].name, 1, Len(gens[i].name) - 1)
                = SubSeq(gens[j].name, 1, Len(gens[j].name) - 1)
    /\ \E k \in 1..Len(emits) : \E t \in 1..4 : IsFormalPort(emits[k], emits[k].body.nets[t])
    /\ Len(emits) >= 4

\* C9: every line emitted for a transistor line of a subcircuit body begins with M,
\* has the four mapped terminals, the same model name and the same parameters in
\* the same order.
C9_EmitsTransistorLine ==
    \A k \in 1..Len(emits) :
        LET e == emits[k] IN
        /\ Upper(Head(e.line.toks[1])) = "M"
        /\ Len(e.body.nets) = 4
        /\ Len(e.line.toks) = 6 + Len(e.body.params)
        /\ e.line.toks[6] = e.body.type
        /\ SubSeq(e.line.toks, 7, Len(e.line.toks)) = e.body.params

\* the same statement without the first token
C9_TerminalsModelParams ==
    \A k \in 1..Len(emits) :
        LET e == emits[k] IN
        /\ Len(e.body.nets) = 4
        /\ Len(e.line.toks) = 6 + Len(e.body.params)
        /\ e.line.toks[6] = e.body.type
        /\ SubSeq(e.line.toks, 7, Len(e.line.toks)) = e.body.params

\* the line is a transistor line, is not an instance line, or names no definition
IsPassedThrough(line, defs) ==
    LET parts == line.toks IN
    \/ parts = <<>>
    \/ Len(parts) < 2
    \/ Head(parts[1]) \notin {"X", "x"}
    \/ parts[Len(parts)] \notin DOMAIN defs

\* C10: a line that is already a transistor line, cannot be parsed as an instance
\* line, or is an X line naming no known subcircuit is returned as the one-element
\* list holding the identical line, and the net-name counter is unchanged.
C10_PassThrough ==
    (last # <<>> /\ IsPassedThrough(last.line, subcircuit_defs))
        => /\ last.result = <<last.line>>
           /\ net_name_counter = last.counter

C10_Witness ==
    /\ last # <<>>
    /\ last.line.pad
    /\ Len(last.line.toks) >= 6 /\ Head(last.line.toks[1]) = "M"
    /\ last.result = <<last.line>>
    /\ DOMAIN last.counter # {}
    /\ net_name_counter = last.counter

\* an X line that names a known subcircuit and supplies fewer nets than it has ports
IsUnderConnected(line, defs) ==
    LET p == ParseInstanceLine(line) IN
    /\ p.ok
    /\ Upper(Head(p.name)) # "M"
    /\ p.type \in DOMAIN defs
    /\ Len(p.nets) < Len(defs[p.type].ports)

\* a body line that instantiates a known subcircuit
IsNestedInstance(line, defs) ==
    LET p == ParseInstanceLine(line) IN
    p.ok /\ Upper(Head(p.name)) # "M" /\ p.type \in DOMAIN defs

\* every line of the body is a transistor line
IsTransistorBody(body) ==
    \A k \in 1..Len(body) :
        ParseInstanceLine(body[k]).ok /\ Upper(Head(ParseInstanceLine(body[k]).name)) = "M"

\* C19: an X line with fewer nets than the subcircuit has formal ports binds port
\* i to the i-th supplied net, binds every remaining port to NC, and the expanded
\* body lines are still returned.
C19_UnderConnectedPorts ==
    /\ \A k \in 1..Len(emits) :
          LET e == emits[k] IN
          Len(e.conns) < Len(e.ports)
             => \A t \in 1..Len(e.body.nets), i \in 1..Len(e.ports) :
                   e.ports[i] = e.body.nets[t]
                      => Terminals(e)[t] = IF i <= Len(e.conns) THEN e.conns[i] ELSE NC
    /\ (last # <<>> /\ IsUnderConnected(last.line, subcircuit_defs))
          => LET n == Len(last.result)
                 body == subcircuit_defs[ParseInstanceLine(last.line).type].instances
                 ports == subcircuit_defs[ParseInstanceLine(last.line).type].ports
             IN /\ n >= 1
                /\ n <= Len(emits)
                /\ \A k \in 1..n : last.result[k] = emits[Len(emits) - n + k].line
                /\ IsTransistorBody(body)
                      => /\ n = Len(body)
                         /\ \A k \in (Len(emits) - n + 1)..Len(emits) :
                               /\ emits[k].conns = ParseInstanceLine(last.line).nets
                               /\ emits[k].ports = ports
                /\ \A b \in 1..Len(body) :
                      IsNestedInstance(body[b], subcircuit_defs)
                         => \E k \in (Len(emits) - n + 1)..Len(emits) :
                               LET inner == ParseInstanceLine(body[b]).nets
                                   outer == ParseInstanceLine(last.line).nets
                               IN /\ Len(emits[k].conns) = Len(inner)
                                  /\ \A t \in 1..Len(inner), i \in 1..Len(ports) :
                                        ports[i] = inner[t]
                                           => emits[k].conns[t] =
                                                 IF i <= Len(outer) THEN outer[i] ELSE NC

\* `X3 a INV` was expanded: a body line was emitted with a on A and NC on Y
C19_Witness ==
    /\ last # <<>>
    /\ IsUnderConnected(last.line, subcircuit_defs)
    /\ Len(last.result) = 2
    /\ \E k \in 1..Len(emits) :
          /\ emits[k].line = last.result[1]
          /\ Len(emits[k].conns) = 1
          /\ \E t, u \in 1..4 :
                /\ emits[k].body.nets[t] = emits[k].ports[1]
                /\ Terminals(emits[k])[t] = emits[k].conns[1]
                /\ emits[k].body.nets[u] = emits[k].ports[2]
                /\ Terminals(emits[k])[u] = NC

\* the subcircuit types that the body of the definition of t instantiates
Callees(defs, t) ==
    {ParseInstanceLine(defs[t].instances[k]).type :
        k \in {j \in 1..Len(defs[t].instances) :
                  /\ ParseInstanceLine(defs[t].instances[j]).ok
                  /\ Upper(Head(ParseInstanceLine(defs[t].instances[j]).name)) # "M"}}
      \cap DOMAIN defs

\* the levels of the definition hierarchy from t down (no definition instantiates itself)
RECURSIVE Levels(_, _)
Levels(defs, t) ==
    LET below == {Levels(defs, u) : u \in Callees(defs, t)}
    IN IF below = {} THEN 1
       ELSE 1 + CHOOSE n \in below : \A m \in below : m <= n

\* the statements of expand_to_transistor_level still to be executed
StepsLeft ==
    CASE lpc = "start" -> Len(instances) + 3
      [] lpc = "loop"  -> Len(instances) + 2 - idx
      [] OTHER         -> 0

\* C30: expand_to_transistor_level terminates, by returning or by raising, for
\* every instance list and every library without a definition that instantiates
\* itself; each recursive call on a nested X line expands a definition that the
\* caller's definition instantiates, one level further down the hierarchy, so
\* the recursion is never deeper than the hierarchy; every step of the function
\* leaves fewer statements to execute.
C30_ExpansionTerminates ==
    /\ <>(lpc \in {"done", "error"})
    /\ [][StepsLeft' < StepsLeft]_vars
    /\ [](\A c \in 1..Len(calls) :
             /\ \A k \in 2..Len(calls[c]) :
                   /\ calls[c][k] \in Callees(subcircuit_defs, calls[c][k - 1])
                   /\ Levels(subcircuit_defs, calls[c][k])
                         < Levels(subcircuit_defs, calls[c][k - 1])
             /\ Len(calls[c]) <= Levels(subcircuit_defs, calls[c][1]))

\* the expansion of a BUF instance recursed into its two INV instances and returned
C30_Witness ==
    /\ lpc = "done"
    /\ \E c \in 1..Len(calls) : calls[c] = << <<"BUF">>, <<"INV">> >>
    /\ Len(expanded_instances) > Len(instances)

----------------------------------------------------------------------------
(* map_gate_to_cell *)

YOSYS_GATE_MAP ==
    [g \in {"$_AND_", "$_NAND_", "$_OR_", "$_NOR_", "$_XOR_", "$_XNOR_", "$_NOT_",
            "$_BUF_", "$_ANDNOT_", "$_ORNOT_", "$_MUX_", "$_DFF_", "$_DFFE_",
            "$_DFF_N_", "$_DFF_P_", "$_DFFE_N_", "$_DFFE_P_", "$_DFFSR_", "$_DFFSRE_"} |->
        CASE g = "$_AND_" -> "AND2"
          [] g = "$_NAND_" -> "NAND2"
          [] g = "$_OR_" -> "OR2"
          [] g = "$_NOR_" -> "NOR2"
          [] g = "$_XOR_" -> "XOR2"
          [] g = "$_XNOR_" -> "XNOR2"
          [] g = "$_NOT_" -> "INV"
          [] g = "$_BUF_" -> "BUF"
          [] g = "$_ANDNOT_" -> "AND2"
          [] g = "$_ORNOT_" -> "OR2"
          [] g = "$_MUX_" -> "MUX2"
          [] g \in {"$_DFFSR_", "$_DFFSRE_"} -> "DFFR"
          [] OTHER -> "DFF"]

DEFAULT_GATE_MAP ==
    [g \in {"NOT", "AND", "NAND", "OR", "NOR", "XOR", "XNOR", "BUF", "DFF", "DFFR",
            "FA", "HA", "MUX2", "MUX4", "MUX8"} |->
        CASE g = "NOT" -> "INV"
          [] g \in {"AND", "NAND", "OR", "NOR", "XOR", "XNOR"} -> g \o "2"
          [] OTHER -> g]

\* str.upper() on the names that occur in the gate types and libraries below
StrUpper(s) ==
    CASE s \in {"and2", "And2"} -> "AND2"
      [] s = "and" -> "AND"
      [] s = "inv" -> "INV"
      [] s = "$_and_" -> "$_AND_"
      [] s = "foo" -> "FOO"
      [] OTHER -> s

KeySet(keys) == {keys[i] : i \in 1..Len(keys)}

\* lines 239-259: direct match, default mapping, case-insensitive match
MapDefaultBeforeDirect(gate, keys) ==
    LET hits == {i \in 1..Len(keys) : StrUpper(keys[i]) = StrUpper(gate)} IN
    IF gate \in DOMAIN DEFAULT_GATE_MAP /\ DEFAULT_GATE_MAP[gate] \in KeySet(keys)
    THEN DEFAULT_GATE_MAP[gate]
    ELSE IF gate \in KeySet(keys) THEN gate
    ELSE IF hits # {} THEN keys[FirstIdx(hits)]
    ELSE NoCell
MapOther(gate, keys) ==
    LET hits == {i \in 1..Len(keys) : StrUpper(keys[i]) = StrUpper(gate)} IN
    IF gate \in KeySet(keys) THEN gate
    ELSE IF gate \in DOMAIN DEFAULT_GATE_MAP /\ DEFAULT_GATE_MAP[gate] \in KeySet(keys)
    THEN DEFAULT_GATE_MAP[gate]
    ELSE IF hits # {} THEN keys[FirstIdx(hits)]
    ELSE NoCell

MapGateToCellFallThrough(gate, keys) ==
    IF gate \in DOMAIN YOSYS_GATE_MAP /\ YOSYS_GATE_MAP[gate] \in KeySet(keys)
    THEN YOSYS_GATE_MAP[gate]
    ELSE MapOther(gate, keys)
MapGateToCell(gate, keys) ==
    IF gate \in DOMAIN YOSYS_GATE_MAP
    THEN IF YOSYS_GATE_MAP[gate] \in KeySet(keys) THEN YOSYS_GATE_MAP[gate] ELSE NoCell
    ELSE MapOther(gate, keys)

MaxLibraryCells == 3

GateTypes ==
    {"$_AND_", "$_NOT_", "$_ANDNOT_", "$_DFFE_P_", "$_DFFSR_", "$_and_",
     "AND2", "and2", "AND", "and", "NOT", "inv", "FOO"}

LibraryNames ==
    {"AND2", "and2", "And2", "AND", "INV", "inv", "DFF", "$_AND_", "$_and_", "foo"}

InitMap ==
    \E g \in GateTypes :
      \E l \in SeqsUpTo(LibraryNames, MaxLibraryCells) :
        /\ RewriteIdle /\ LowerIdle /\ EmitIdle /\ TopIdle /\ ParseIdle
        /\ map_gate_type = g
        /\ library_cells = l
        /\ mapped = NoCell
        /\ mapped_again = NoCell
        /\ mpc = 0

\* mapped_cell = map_gate_to_cell(cell_type, cell_library)
MapGate ==
    /\ mpc = 0
    /\ mapped' = MapGateToCell(map_gate_type, library_cells)
    /\ mpc' = 1
    /\ UNCHANGED <<map_gate_type, library_cells, mapped_again>>
    /\ UNCHANGED <<rvars, lvars, evars, tvars, pvars>>

\* the same call once more
MapGateAgain ==
    /\ mpc = 1
    /\ mapped_again' = MapGateToCell(map_gate_type, library_cells)
    /\ mpc' = 2
    /\ UNCHANGED <<map_gate_type, library_cells, mapped>>
    /\ UNCHANGED <<rvars, lvars, evars, tvars, pvars>>

NextMap == MapGate \/ MapGateAgain

SpecMap == InitMap /\ [][NextMap]_vars

----------------------------------------------------------------------------
(* Properties of map_gate_to_cell *)

\* C11: for a gate type of the internal-primitive table the result is the table's
\* cell name when the library has it and not-found otherwise, whatever else the
\* library holds (the gate type itself, a case variant of it).
C11_PrimitiveTableOnly ==
    (mpc >= 1 /\ map_gate_type \in DOMAIN YOSYS_GATE_MAP)
        => mapped = IF \E i \in 1..Len(library_cells) :
                          library_cells[i] = YOSYS_GATE_MAP[map_gate_type]
                    THEN YOSYS_GATE_MAP[map_gate_type]
                    ELSE NoCell

\* the table's cell is missing while the library holds the gate type itself
C11_Witness ==
    /\ mpc >= 1 /\ map_gate_type = "$_AND_"
    /\ \E i \in 1..Len(library_cells) : library_cells[i] = "$_AND_"
    /\ \E i \in 1..Len(library_cells) : library_cells[i] = "and2"
    /\ mapped = NoCell

IgnoreCaseEq(a, b) == StrUpper(a) = StrUpper(b)

\* C12: for a gate type outside the internal-primitive table the result is the gate
\* type itself if it is a library cell, else the generic table's cell if it is a
\* library cell, else the first library cell equal to the gate type ignoring case,
\* else not-found; a second call returns the same value.
C12_ResolutionOrder ==
    (mpc >= 1 /\ map_gate_type \notin DOMAIN YOSYS_GATE_MAP)
        => LET n == Len(library_cells)
               has(c) == \E i \in 1..n : library_cells[i] = c
               generic == IF map_gate_type \in DOMAIN DEFAULT_GATE_MAP
                          THEN DEFAULT_GATE_MAP[map_gate_type] ELSE NoCell
           IN /\ has(map_gate_type) => mapped = map_gate_type
              /\ (~has(map_gate_type) /\ has(generic)) => mapped = generic
              /\ (~has(map_gate_type) /\ ~has(generic))
                    => \/ /\ mapped = NoCell
                          /\ \A i \in 1..n : ~IgnoreCaseEq(library_cells[i], map_gate_type)
                       \/ \E i \in 1..n :
                             /\ mapped = library_cells[i]
                             /\ IgnoreCaseEq(library_cells[i], map_gate_type)
                             /\ \A j \in 1..(i - 1) :
                                   ~IgnoreCaseEq(library_cells[j], map_gate_type)
              /\ mpc = 2 => mapped_again = mapped

\* two case variants of the gate type in the library: the first one is returned
C12_Witness ==
    /\ mpc = 2 /\ map_gate_type = "AND2"
    /\ library_cells = <<"INV", "and2", "And2">>
    /\ mapped = "and2" /\ mapped_again = "and2"

----------------------------------------------------------------------------
(* build_signal_map, generate_module_instances, generate_netlist *)

ESC == "\\"

\* name.lstrip("\\")
RECURSIVE LStrip(_)
LStrip(name) == IF name # <<>> /\ Head(name) = ESC THEN LStrip(Tail(name)) ELSE name

\* signal_map after the netnames up to index k; a later net overwrites an earlier one
RECURSIVE BuildSignalMap(_, _)
BuildSignalMap(netnames, k) ==
    IF k = 0 THEN <<>>
    ELSE LET prev == BuildSignalMap(netnames, k - 1)
             bits == netnames[k].bits
             clean_name == LStrip(netnames[k].name)
             \* bits.index(bit_id): the first position of the bit
             index(b) == FirstIdx({i \in 1..Len(bits) : bits[i] = b}) - 1
             named(b) == IF Len(bits) > 1
                         THEN clean_name \o <<"[">> \o DecStr(index(b)) \o <<"]">>
                         ELSE clean_name
             here == {bits[i] : i \in 1..Len(bits)}
         IN [b \in DOMAIN prev \cup here |-> IF b \in here THEN named(b) ELSE prev[b]]

\* instance_name: leading escape markers stripped, then '$', '/', ':' replaced by '_'
CleanInstanceName(name) ==
    LET stripped == LStrip(name)
    IN [i \in 1..Len(stripped) |->
           IF stripped[i] \in {"$", "/", ":"} THEN "_" ELSE stripped[i]]

\* the net of one library pin of a cell
PinAlwaysNumbered(cell, pin, signal_map) ==
    LET signal_id == IF pin \in Pins THEN cell.conn[pin] ELSE None
    IN IF signal_id = None THEN NC ELSE <<"n">> \o DecStr(signal_id)
PinConnection(cell, pin, signal_map) ==
    LET signal_id == IF pin \in Pins THEN cell.conn[pin] ELSE None
    IN IF signal_id = None THEN NC
       ELSE IF signal_id \in DOMAIN signal_map THEN signal_map[signal_id]
       ELSE <<"n">> \o DecStr(signal_id)

LibraryKeys(library) == [i \in 1..Len(library) |-> library[i].name]
LibraryCell(library, name) ==
    library[CHOOSE i \in 1..Len(library) : library[i].name = name]

\* cell_lib_info.get("spice_model", mapped_cell); "" stands for no such key
SpiceModel(cell_lib_info) ==
    IF cell_lib_info.spice_model = "" THEN cell_lib_info.name ELSE cell_lib_info.spice_model

\* f"X{instance_name} {' '.join(pin_connections)} {spice_model}"
InstanceLine(cell, cell_lib_info, signal_map) ==
    Line(<< <<"X">> \o CleanInstanceName(cell.name) >>
         \o [i \in 1..Len(cell_lib_info.pins) |->
                PinConnection(cell, cell_lib_info.pins[i], signal_map)]
         \o << <<SpiceModel(cell_lib_info)>> >>)

CountOnce(unmapped, type) == [t \in DOMAIN unmapped \cup {type} |-> 1]
\* unmapped_gates[cell_type] = unmapped_gates.get(cell_type, 0) + 1
CountUp(unmapped, type) ==
    [t \in DOMAIN unmapped \cup {type} |->
        IF t = type THEN (IF t \in DOMAIN unmapped THEN unmapped[t] ELSE 0) + 1
        ELSE unmapped[t]]

\* the loop over cells.items() from index k; acc: [instances, unmapped]
RECURSIVE EmitLoop(_, _, _, _, _)
EmitLoop(cs, library, signal_map, k, acc) ==
    IF k > Len(cs) THEN acc
    ELSE
    LET cell == cs[k]
        mapped_cell == MapGateToCell(cell.type, LibraryKeys(library))
    IN IF cell.type = "" THEN EmitLoop(cs, library, signal_map, k + 1, acc)
       ELSE IF mapped_cell = NoCell
       THEN EmitLoop(cs, library, signal_map, k + 1,
                     [acc EXCEPT !.unmapped = CountUp(@, cell.type)])
       ELSE EmitLoop(cs, library, signal_map, k + 1,
                     [acc EXCEPT !.instances =
                         Append(@, InstanceLine(cell, LibraryCell(library, mapped_cell),
                                                signal_map))])

\* the instance lines and the unmapped counts of the rewritten cells
EmitCells(cs, library, signal_map) ==
    LET r == EmitLoop(cs, library, signal_map, 1, [instances |-> <<>>, unmapped |-> <<>>])
    IN [cells |-> cs, instances |-> r.instances, unmapped |-> r.unmapped]

\* the result of generate_module_instances: [cells, instances, unmapped]
GenerateModuleInstances(data, library) ==
    IF data.cells = <<>>
    THEN [cells |-> <<>>, instances |-> <<>>, unmapped |-> <<>>]
    ELSE EmitCells(CollapseAssociativeGateChains(
                       DetectAdderPatterns(data.cells, KeySet(LibraryKeys(library))),
                       data.outs, KeySet(LibraryKeys(library))),
                   library, BuildSignalMap(data.netnames, Len(data.netnames)))

MaxEmitCells == 2
MaxEmitLibrary == 3

\* the subsequences of s with at most n elements
RECURSIVE SubSeqsUpTo(_, _)
SubSeqsUpTo(s, n) ==
    IF s = <<>> \/ n = 0 THEN {<<>>}
    ELSE SubSeqsUpTo(Tail(s), n) \cup {<<Head(s)>> \o t : t \in SubSeqsUpTo(Tail(s), n - 1)}

\* cells of the emitted module: data = 2, out = 3
EmitCellPool ==
    { Gate(<<"$", "abc", "$", "1">>, NOT, 2, None, 3),
      Gate(<<ESC, "u", ":", "2">>, AND, 2, 4, 5),
      Gate(<<"x", "/", "3">>, XOR, 2, 4, 6),
      Gate(<<"t4">>, "", 2, None, 7),
      Gate(<<"f5">>, "FOO", 5, None, 7),
      Gate(<<"g6">>, AND, 5, 6, 8),
      Gate(<<"x", ":", "3">>, NOT, 4, None, 9) }

NetnamesPool ==
    { <<>>,
      << [name |-> <<"data">>, bits |-> <<2>>], [name |-> <<"out">>, bits |-> <<3>>],
         [name |-> <<ESC, "b">>, bits |-> <<4>>], [name |-> <<"bus">>, bits |-> <<5, 6>>] >>,
      << [name |-> <<"w">>, bits |-> <<2, 3>>], [name |-> <<"data">>, bits |-> <<2>>] >>,
      << [name |-> <<"n", "4">>, bits |-> <<2>>] >> }

LibCell(name, pins, spice_model) ==
    [name |-> name, pins |-> pins, spice_model |-> spice_model]

LibraryPool ==
    << LibCell("INV", <<"A", "Y">>, ""),
       LibCell("AND2", <<"A", "B", "EN", "Y">>, "AND2X1"),
       LibCell("XOR2", <<"A", "B", "Y">>, ""),
       LibCell("HA", <<"A", "B", "SUM", "CARRY">>, ""),
       LibCell("AND3", <<"A", "B", "C", "Y">>, ""),
       LibCell("foo", <<"Y", "A">>, "") >>

\* the top module is not a key of netlist.modules
NoModule == [cells |-> <<>>, netnames |-> <<>>, outs |-> {}, found |-> FALSE]

InitEmit ==
    \E c \in SeqsUpTo(EmitCellPool, MaxEmitCells) :
      \E n \in NetnamesPool :
        \E l \in SubSeqsUpTo(LibraryPool, MaxEmitLibrary) :
          \E d \in {NoModule, [cells |-> c, netnames |-> n, outs |-> {}, found |-> TRUE]} :
            /\ RewriteIdle /\ LowerIdle /\ MapIdle /\ TopIdle /\ ParseIdle
            /\ module_data = d
            /\ cell_library = l
            /\ final_cells = <<>>
            /\ module_instances = <<>>
            /\ unmapped_gates = <<>>
            /\ epc = "start"

\* raise ValueError("Top module ... not found in netlist")
RaiseTopModuleNotFound ==
    /\ epc = "start"
    /\ ~module_data.found
    /\ epc' = "error"
    /\ UNCHANGED <<module_data, cell_library, final_cells, module_instances, unmapped_gates>>
    /\ UNCHANGED <<rvars, lvars, mvars, tvars, pvars>>

\* instances = generate_module_instances(module_data, cell_library, top_module_escaped)
GenerateInstances ==
    /\ epc = "start"
    /\ module_data.found
    /\ \E r \in {GenerateModuleInstances(module_data, cell_library)} :
          /\ final_cells' = r.cells
          /\ module_instances' = r.instances
          /\ unmapped_gates' = r.unmapped
    /\ epc' = "generated"
    /\ UNCHANGED <<module_data, cell_library>>
    /\ UNCHANGED <<rvars, lvars, mvars, tvars, pvars>>

\* raise ValueError("No SPICE instances generated for module ...")
RaiseNoInstances ==
    /\ epc = "generated"
    /\ module_instances = <<>>
    /\ epc' = "no_instances"
    /\ UNCHANGED <<module_data, cell_library, final_cells, module_instances, unmapped_gates>>
    /\ UNCHANGED <<rvars, lvars, mvars, tvars, pvars>>

\* return SpiceNetlist(..., instances=instances, ...)
ReturnNetlist ==
    /\ epc = "generated"
    /\ module_instances # <<>>
    /\ epc' = "returned"
    /\ UNCHANGED <<module_data, cell_library, final_cells, module_instances, unmapped_gates>>
    /\ UNCHANGED <<rvars, lvars, mvars, tvars, pvars>>

NextEmit == RaiseTopModuleNotFound \/ GenerateInstances \/ RaiseNoInstances \/ ReturnNetlist

SpecEmit == InitEmit /\ [][NextEmit]_vars

----------------------------------------------------------------------------
(* Properties of generate_module_instances and generate_netlist *)

\* the library cell that the type of a post-rewrite cell maps to, NoCell if none
MappedCellOf(c) == MapGateToCell(c.type, LibraryKeys(cell_library))
IsEmitted(c) == c.type # "" /\ MappedCellOf(c) # NoCell

\* the post-rewrite cells that are emitted, in iteration order
EmittedCells == SelectSeq(final_cells, LAMBDA c : IsEmitted(c))

SkippedOfType(t) == {i \in 1..Len(final_cells) : final_cells[i].type = t /\ ~IsEmitted(final_cells[i])}

StripMarker(name) == IF name # <<>> /\ Head(name) = ESC THEN Tail(name) ELSE name

ExpectedNet(c, pin) ==
    LET signal_map == BuildSignalMap(module_data.netnames, Len(module_data.netnames))
        id == IF pin \in DOMAIN c.conn THEN c.conn[pin] ELSE None
    IN IF id = None THEN <<"NC">>
       ELSE IF id \in DOMAIN signal_map THEN signal_map[id]
       ELSE <<"n">> \o DecStr(id)

EmittedNets ==
    UNION {
      LET c == EmittedCells[i]
          L == LibraryCell(cell_library, MappedCellOf(c))
      IN {<<c.conn[L.pins[j]], module_instances[i].toks[j + 1]>> :
             j \in {k \in 1..Len(L.pins) : L.pins[k] \in Pins /\ c.conn[L.pins[k]] # None}}
      : i \in 1..Len(module_instances)}

\* C26: two different signal ids of the module are never rendered as the same
\* net name in the emitted lines (net names of netnames without their escape
\* marker, n<id>, base[index]): no two distinct nets are shorted in the output.
C26_DistinctSignalsDistinctNets ==
    epc \in {"generated", "returned"}
        => \A a, b \in EmittedNets : a[1] # b[1] => a[2] # b[2]

\* a net name of the module reads like the fallback name of a signal id
NamedLikeFallback ==
    \E k \in 1..Len(module_data.netnames) :
       \E id \in 1..9 : LStrip(module_data.netnames[k].name) = <<"n">> \o DecStr(id)

\* the same statement for modules without a net name of the form n<id>
C26_DistinctNetsUnlessNamedLikeFallback ==
    (epc \in {"generated", "returned"} /\ ~NamedLikeFallback)
        => \A a, b \in EmittedNets : a[1] # b[1] => a[2] # b[2]

\* C27: the cell names of a module being pairwise distinct, the instance names
\* of the emitted lines (escape marker stripped, '$', '/', ':' replaced by '_')
\* are pairwise distinct.
C27_DistinctInstanceNames ==
    epc \in {"generated", "returned"}
        => \A i, j \in 1..Len(module_instances) :
              i # j => module_instances[i].toks[1] # module_instances[j].toks[1]

\* the same statement for cells whose names differ after stripping the marker in
\* more than a '$', '/' or ':'
C27_DistinctUnlessCleanedAlike ==
    epc \in {"generated", "returned"}
        => \A i, j \in 1..Len(module_instances) :
              (i # j /\ CleanInstanceName(EmittedCells[i].name)
                           # CleanInstanceName(EmittedCells[j].name))
                 => module_instances[i].toks[1] # module_instances[j].toks[1]

----------------------------------------------------------------------------
(* get_top_module *)
(*                                                                         *)
(* modules is the dict in iteration order: a sequence of [name, types],    *)
(* name being the key (and ModuleInfo.name) and types the cell["type"]     *)
(* values of the module's cells.  Names are token sequences, ESC being     *)
(* the escape marker.                                                      *)

MaxModules == 2

\* top_name is None
NoTop == <<"<None>">>

\* `if top_name:` fails for None and for the empty string
IsGiven(name) == name # NoTop /\ name # <<>>

\* the keys of modules
ModuleKeys(mods) == {mods[i].name : i \in 1..Len(mods)}

\* modules[key]: the position of the key
ModuleAt(mods, key) == CHOOSE i \in 1..Len(mods) : mods[i].name = key

\* f"\\{top_name}"
EscapedName(name) == <<ESC>> \o name

\* used_modules: every cell["type"] of every module
UsedModules(mods) == UNION {mods[i].types : i \in 1..Len(mods)}

\* top_candidates, as positions in iteration order
TopCandidates(mods) ==
    {i \in 1..Len(mods) :
        /\ mods[i].name \notin UsedModules(mods)
        /\ LStrip(mods[i].name) \notin UsedModules(mods)}

\* the modules found by the loop `if mod_name.lstrip("\\") == top_name`
StrippedMatches(mods, name) == {i \in 1..Len(mods) : LStrip(mods[i].name) = name}

GetTopModuleNoFallback(mods, name) ==
    IF IsGiven(name)
    THEN IF name \in ModuleKeys(mods)
         THEN [kind |-> "return", at |-> ModuleAt(mods, name)]
         ELSE IF EscapedName(name) \in ModuleKeys(mods)
         THEN [kind |-> "return", at |-> ModuleAt(mods, EscapedName(name))]
         ELSE IF StrippedMatches(mods, name) # {}
         THEN [kind |-> "return", at |-> FirstIdx(StrippedMatches(mods, name))]
         ELSE [kind |-> "not_found", at |-> 0]
    ELSE IF Len(mods) = 1 THEN [kind |-> "return", at |-> 1]
    ELSE IF TopCandidates(mods) # {}
    THEN [kind |-> "return", at |-> FirstIdx(TopCandidates(mods))]
    ELSE [kind |-> "no_modules", at |-> 0]
\* the outcome of get_top_module: [kind, at]; kind is "return" (of modules[at]),
\* "not_found" (ValueError, name not found) or "no_modules" (ValueError, empty design)
GetTopModule(mods, name) ==
    IF IsGiven(name)
    THEN IF name \in ModuleKeys(mods)
         THEN [kind |-> "return", at |-> ModuleAt(mods, name)]
         ELSE IF EscapedName(name) \in ModuleKeys(mods)
         THEN [kind |-> "return", at |-> ModuleAt(mods, EscapedName(name))]
         ELSE IF StrippedMatches(mods, name) # {}
         THEN [kind |-> "return", at |-> FirstIdx(StrippedMatches(mods, name))]
         ELSE [kind |-> "not_found", at |-> 0]
    ELSE IF Len(mods) = 1 THEN [kind |-> "return", at |-> 1]
    ELSE IF TopCandidates(mods) # {}
    THEN [kind |-> "return", at |-> FirstIdx(TopCandidates(mods))]
    ELSE IF Len(mods) > 0 THEN [kind |-> "return", at |-> 1]
    ELSE [kind |-> "no_modules", at |-> 0]

\* module keys and cell types of the designs
ModuleNames ==
    { <<"top">>, <<ESC, "top">>, <<ESC, ESC, "top">>, <<"sub">>, <<ESC, "sub">> }

CellTypeSets == { {}, {<<"top">>}, {<<"sub">>}, {<<ESC, "sub">>} }

ModulePool == {[name |-> n, types |-> t] : n \in ModuleNames, t \in CellTypeSets}

TopNames ==
    { NoTop, <<>>, <<"top">>, <<ESC, "top">>, <<ESC, ESC, "top">>, <<"sub">>, <<"none">> }

InitTop ==
    \E m \in ListsUpTo(ModulePool, MaxModules) :
      \E n \in TopNames :
        /\ Cardinality(ModuleKeys(m)) = Len(m)
        /\ RewriteIdle /\ LowerIdle /\ MapIdle /\ EmitIdle /\ ParseIdle
        /\ modules = m
        /\ top_name = n
        /\ top_module = <<>>
        /\ tpc = "start"

\* return modules[...] / return top_module
ReturnTopModule ==
    /\ tpc = "start"
    /\ GetTopModule(modules, top_name).kind = "return"
    /\ top_module' = modules[GetTopModule(modules, top_name).at].name
    /\ tpc' = "returned"
    /\ UNCHANGED <<modules, top_name>>
    /\ UNCHANGED <<rvars, lvars, mvars, evars, pvars>>

\* raise ValueError(f"Specified top module '{top_name}' not found. ...")
RaiseTopNotFound ==
    /\ tpc = "start"
    /\ GetTopModule(modules, top_name).kind = "not_found"
    /\ tpc' = "not_found"
    /\ UNCHANGED <<modules, top_name, top_module>>
    /\ UNCHANGED <<rvars, lvars, mvars, evars, pvars>>

\* raise ValueError("No modules found in design")
RaiseNoModules ==
    /\ tpc = "start"
    /\ GetTopModule(modules, top_name).kind = "no_modules"
    /\ tpc' = "no_modules"
    /\ UNCHANGED <<modules, top_name, top_module>>
    /\ UNCHANGED <<rvars, lvars, mvars, evars, pvars>>

NextTop == ReturnTopModule \/ RaiseTopNotFound \/ RaiseNoModules

SpecTop == InitTop /\ [][NextTop]_vars

----------------------------------------------------------------------------
(* Properties of get_top_module *)

\* the name with a single leading escape marker removed
Unescaped(name) == IF name # <<>> /\ Head(name) = ESC THEN Tail(name) ELSE name

\* the keys that equal the name after adding or removing one escape marker
OneMarkerKeys(mods, name) ==
    {k \in ModuleKeys(mods) :
        \/ k = EscapedName(name)
        \/ (name # <<>> /\ Head(name) = ESC /\ k = Tail(name))}

\* C20: with an explicit name get_top_module returns the module keyed exactly by
\* the name if there is one; otherwise the module whose key equals the name after
\* adding or removing a single leading escape marker, in either direction; if
\* there is none it fails and never falls back to another module.
C20_ExplicitTopName ==
    (tpc # "start" /\ IsGiven(top_name))
        => IF top_name \in ModuleKeys(modules)
           THEN tpc = "returned" /\ top_module = top_name
           ELSE IF OneMarkerKeys(modules, top_name) # {}
           THEN tpc = "returned" /\ top_module \in OneMarkerKeys(modules, top_name)
           ELSE tpc = "not_found"

\* the same statement for a name given without escape marker and modules stored
\* with at most one
C20_ExplicitUnescapedTopName ==
    (/\ tpc # "start" /\ IsGiven(top_name)
     /\ Head(top_name) # ESC
     /\ \A k \in ModuleKeys(modules) : Head(Unescaped(k)) # ESC)
        => IF top_name \in ModuleKeys(modules)
           THEN tpc = "returned" /\ top_module = top_name
           ELSE IF OneMarkerKeys(modules, top_name) # {}
           THEN tpc = "returned" /\ top_module \in OneMarkerKeys(modules, top_name)
           ELSE tpc = "not_found"

\* a name that matches nothing never yields a module
C20_NoFallbackForExplicitName ==
    (/\ tpc # "start" /\ IsGiven(top_name)
     /\ \A k \in ModuleKeys(modules) : LStrip(k) # LStrip(top_name))
        => tpc = "not_found"

\* two names that are equal or differ only by one leading escape marker
SameModuleName(a, b) == a = b \/ a = EscapedName(b) \/ b = EscapedName(a)

\* the module at position i is the cell type of a cell of another module
UsedByOther(mods, i) ==
    \E j \in 1..Len(mods) :
        j # i /\ \E t \in mods[j].types : SameModuleName(t, mods[i].name)

\* C21: with no name and two or more modules, get_top_module never returns a
\* module used as a cell type in another module while a module not so used
\* exists; a name and a type that differ by a leading escape marker are the same
\* name in both directions, and a module used only by its own cells is not excluded.
C21_AutoDetectSkipsUsedModules ==
    (tpc = "returned" /\ ~IsGiven(top_name) /\ Len(modules) >= 2)
        => ((\E i \in 1..Len(modules) : ~UsedByOther(modules, i))
               => ~UsedByOther(modules, ModuleAt(modules, top_module)))

\* the same statement for designs whose cell types carry no escape marker and
\* in which no module instantiates itself
C21_AutoDetectUnescapedTypes ==
    (/\ tpc = "returned" /\ ~IsGiven(top_name) /\ Len(modules) >= 2
     /\ \A i \in 1..Len(modules) :
           /\ \A t \in modules[i].types : Head(t) # ESC /\ t # LStrip(modules[i].name)
           /\ Head(Unescaped(modules[i].name)) # ESC)
        => ((\E i \in 1..Len(modules) : ~UsedByOther(modules, i))
               => ~UsedByOther(modules, ModuleAt(modules, top_module)))

\* the module at position i is left out by the auto-detection
IsExcluded(mods, i) ==
    \E j \in 1..Len(mods) :
        mods[i].name \in mods[j].types \/ LStrip(mods[i].name) \in mods[j].types

\* C22: with no name, get_top_module returns the only module when there is
\* exactly one; when auto-detection excludes every module it returns the first
\* module in iteration order; it fails if and only if there is no module.
C22_SingleFallbackEmpty ==
    (tpc # "start" /\ ~IsGiven(top_name))
        => /\ Len(modules) = 1 => (tpc = "returned" /\ top_module = modules[1].name)
           /\ (Len(modules) >= 2 /\ \A i \in 1..Len(modules) : IsExcluded(modules, i))
                 => (tpc = "returned" /\ top_module = modules[1].name)
           /\ tpc # "returned" <=> modules = <<>>
           /\ tpc # "not_found"

\* two modules that instantiate each other: the first one is returned
C22_Witness ==
    /\ tpc = "returned" /\ ~IsGiven(top_name)
    /\ Len(modules) = 2
    /\ \A i \in 1..2 : UsedByOther(modules, i) /\ IsExcluded(modules, i)
    /\ top_module = modules[1].name

----------------------------------------------------------------------------
(* parse_spice_subcircuits *)
(*                                                                         *)
(* spice_content.split("\n") is a sequence of lines; a line is a record    *)
(* [pad, toks] as above, `pad` telling whether blanks surround the tokens. *)
(* The first symbol of a keyword token is the keyword (.SUBCKT, .ENDS).    *)

MaxSpiceLines == 4

\* line.strip()
Strip(line) == Line(line.toks)

\* line.strip().upper().startswith(".SUBCKT")
IsSubcktLine(line) == line.toks # <<>> /\ Head(line.toks[1]) \in {".SUBCKT", ".subckt"}

\* current_line.strip().upper().startswith(".ENDS")
IsEndsLine(line) == line.toks # <<>> /\ Head(line.toks[1]) \in {".ENDS", ".ends"}

\* line[7:].strip().split(): what follows the keyword
SubcktRest(line) ==
    (IF Len(line.toks[1]) > 1 THEN <<Tail(line.toks[1])>> ELSE <<>>) \o Tail(line.toks)

\* parse_subcircuit_line: [ok, name, ports], ok = FALSE for None
ParseSubcircuitLine(line) ==
    IF ~IsSubcktLine(line) THEN [ok |-> FALSE, name |-> <<>>, ports |-> <<>>]
    ELSE IF SubcktRest(line) = <<>> THEN [ok |-> FALSE, name |-> <<>>, ports |-> <<>>]
    ELSE [ok |-> TRUE, name |-> Head(SubcktRest(line)), ports |-> Tail(SubcktRest(line))]

\* is_instance_line
IsInstanceLine(line) ==
    IF line.toks = <<>> THEN FALSE
    ELSE \/ Upper(Head(line.toks[1])) \in {"M", "X"}
         \/ Head(line.toks[1]) = "+"
         \/ Head(line.toks[1]) = "*"

\* the index at which the inner loop stops: the first .ENDS line from j on, or
\* len(lines) + 1 when the content ends first
BlockEnd(lines, j) ==
    IF \E k \in j..Len(lines) : IsEndsLine(lines[k])
    THEN FirstIdx({k \in j..Len(lines) : IsEndsLine(lines[k])})
    ELSE Len(lines) + 1

\* instance_lines: the stripped instance lines among lines[from..to]
RECURSIVE InstanceLines(_, _, _)
InstanceLines(lines, from, to) ==
    IF from > to THEN <<>>
    ELSE IF IsInstanceLine(lines[to])
         THEN Append(InstanceLines(lines, from, to - 1), Strip(lines[to]))
         ELSE InstanceLines(lines, from, to - 1)

\* SubcircuitDefinition(name=name, ports=ports, instances=..., lines=...) of the
\* block that begins at line k
BlockDefinition(lines, k) ==
    [name |-> ParseSubcircuitLine(lines[k]).name,
     ports |-> ParseSubcircuitLine(lines[k]).ports,
     instances |-> InstanceLines(lines, k + 1, BlockEnd(lines, k + 1) - 1),
     lines |-> SubSeq(lines, k, IF BlockEnd(lines, k + 1) > Len(lines)
                                THEN Len(lines) ELSE BlockEnd(lines, k + 1))]

\* the lines of a SPICE file
SpiceLinePool ==
    { Line(<< <<".SUBCKT">>, <<"INV">>, <<"A">>, <<"Y">> >>),
      Padded(<< <<".subckt">>, <<"BUF">>, <<"A">> >>),
      Line(<< <<"M", "1">>, <<"Y">>, <<"A">>, <<"VDD">>, <<"VDD">>, <<"PMOS">> >>),
      Padded(<< <<"x", "1">>, <<"A">>, <<"Y">>, <<"INV">> >>),
      Line(<< <<"*">>, <<"comment">> >>),
      Line(<< <<".ENDS">> >>),
      Line(<< <<".ends">>, <<"BUF">> >>),
      Line(<< <<"R", "1">>, <<"A">>, <<"Y">> >>) }

InitParse ==
    \E c \in ListsUpTo(SpiceLinePool, MaxSpiceLines) :
        /\ RewriteIdle /\ LowerIdle /\ MapIdle /\ EmitIdle /\ TopIdle
        /\ spice_content = c
        /\ parse_i = 1
        /\ subcircuits = <<>>
        /\ blocks = <<>>
        /\ ppc = "loop"

\* one iteration of the outer loop on a .SUBCKT line: the block is read up to its
\* .ENDS line and stored under its name
ParseBlock ==
    /\ ppc = "loop"
    /\ parse_i <= Len(spice_content)
    /\ ParseSubcircuitLine(spice_content[parse_i]).ok
    /\ subcircuits' = DictSet(subcircuits, BlockDefinition(spice_content, parse_i))
    /\ blocks' = Append(blocks, [first |-> parse_i,
                                 last |-> BlockEnd(spice_content, parse_i + 1)])
    /\ parse_i' = BlockEnd(spice_content, parse_i + 1) + 1
    /\ UNCHANGED <<spice_content, ppc>>
    /\ UNCHANGED <<rvars, lvars, mvars, evars, tvars>>

\* one iteration of the outer loop on any other line
SkipLine ==
    /\ ppc = "loop"
    /\ parse_i <= Len(spice_content)
    /\ ~ParseSubcircuitLine(spice_content[parse_i]).ok
    /\ parse_i' = parse_i + 1
    /\ UNCHANGED <<spice_content, subcircuits, blocks, ppc>>
    /\ UNCHANGED <<rvars, lvars, mvars, evars, tvars>>

\* return subcircuits
ReturnSubcircuits ==
    /\ ppc = "loop"
    /\ parse_i > Len(spice_content)
    /\ ppc' = "done"
    /\ UNCHANGED <<spice_content, parse_i, subcircuits, blocks>>
    /\ UNCHANGED <<rvars, lvars, mvars, evars, tvars>>

NextParse == ParseBlock \/ SkipLine \/ ReturnSubcircuits

SpecParse == InitParse /\ [][NextParse]_vars

----------------------------------------------------------------------------
(* Properties of parse_spice_subcircuits *)

\* the lines of spice_content[from..to] whose first character is in markers,
\* stripped, in file order
RECURSIVE LinesBeginningWith(_, _, _)
LinesBeginningWith(markers, from, to) ==
    IF from > to THEN <<>>
    ELSE LET line == spice_content[to] IN
         IF line.toks # <<>> /\ Upper(Head(line.toks[1])) \in markers
         THEN Append(LinesBeginningWith(markers, from, to - 1), Line(line.toks))
         ELSE LinesBeginningWith(markers, from, to - 1)

\* every block read is closed by an .ENDS line and no two blocks have the same name
WellFormedBlocks ==
    /\ \A b \in 1..Len(blocks) : blocks[b].last <= Len(spice_content)
    /\ \A b, c \in 1..Len(blocks) :
          b # c => spice_content[blocks[b].first].toks[2] # spice_content[blocks[c].first].toks[2]
    /\ \A b \in 1..Len(blocks) : Len(spice_content[blocks[b].first].toks[1]) = 1

\* the definitions of the blocks, with the body lines beginning with one of the markers
DefinitionsWith(markers) ==
    /\ Len(subcircuits) = Len(blocks)
    /\ \A b \in 1..Len(blocks) :
          LET head == spice_content[blocks[b].first].toks IN
          /\ subcircuits[b].name = head[2]
          /\ subcircuits[b].ports = SubSeq(head, 3, Len(head))
          /\ subcircuits[b].instances
                = LinesBeginningWith(markers, blocks[b].first + 1, blocks[b].last - 1)

\* C23: one SubcircuitDefinition per .SUBCKT ... .ENDS block, with the block's name,
\* its ports in declaration order and, as instances, exactly the body lines that
\* begin with M or X, in file order; comment lines and other lines are left out;
\* an .ENDS with another name closes the block all the same.
C23_InstancesAreTransistorsAndCalls ==
    (ppc = "done" /\ WellFormedBlocks) => DefinitionsWith({"M", "X"})

\* the same statement with the comment and continuation lines counted in
C23_InstancesWithComments ==
    (ppc = "done" /\ WellFormedBlocks) => DefinitionsWith({"M", "X", "*", "+"})

====
